---- MODULE Spec2Model ----
(***************************************************************************)
(* A model of the deck synchronisation and step-sequencing engine of       *)
(* vidsynth.  The repository holds successive revisions of one program:    *)
(*   - the two-deck revision (src/vidz-k.py): tempo sync, time-stretch     *)
(*     hand-off, trigger/seek position mapping.  Its state is `deck`,      *)
(*     `bank_data`, `active_clip`, `clip_meta`, `prep_workers`,            *)
(*     `rb_workers`.                                                       *)
(*   - the four-track revision (src/vidz-o.py): absolute-time step clock,  *)
(*     per-clip loop windows, attack/release envelope.  Its state is       *)
(*     `tracks`, `clip_sequencer_data`, the transport variables.           *)
(* Numbers: times are integer milliseconds, tempi are integers in tenths   *)
(* of a BPM (the code rounds the master tempo to one decimal), rates,      *)
(* envelope levels and normalised positions are exact rationals [n, d]     *)
(* (the code uses floats; the model computes int(x / y) exactly).          *)
(***************************************************************************)
EXTENDS Integers, Sequences, FiniteSets, TLC

None == "none"
\* marks a path with no clip_meta entry
NoTempo == -1

-----------------------------------------------------------------------------
(* Bounds of the model *)

\* rate changes that may be issued to one deck
MaxReq == 2
\* time-stretch worker threads in flight at once
MaxWorkers == 2
\* analysis worker threads in flight at once
MaxPrep == 1
\* clips loaded, pattern and loop-window edits made, sequencer starts
MaxEdits == 4
\* the wall clock is followed up to this many ms
MaxNow == 2500
\* positions 0..MaxPos ms are mapped into a rendition and back
MaxPos == 60

\* bank switches per behaviour
MaxSwitch == 2

-----------------------------------------------------------------------------
(* Rational arithmetic for playback rates *)

RECURSIVE GCD(_, _)
GCD(a, b) == IF b = 0 THEN a ELSE GCD(b, a % b)

Rat(n, d) == IF n = 0 THEN [n |-> 0, d |-> 1]
             ELSE LET g == GCD(n, d) IN [n |-> n \div g, d |-> d \div g]

One == [n |-> 1, d |-> 1]
Zero == [n |-> 0, d |-> 1]
Half == [n |-> 1, d |-> 2]
RatAdd(a, b) == Rat(a.n * b.d + b.n * a.d, a.d * b.d)
RatSub(a, b) == Rat(a.n * b.d - b.n * a.d, a.d * b.d)
RatMul(a, b) == Rat(a.n * b.n, a.d * b.d)
RatLeq(a, b) == a.n * b.d <= b.n * a.d

\* int(pos / rate) for pos >= 0 and rate > 0
MapToAudioInverted(pos, rate) == (pos * rate.n) \div rate.d

MapToAudio(pos, rate) == (pos * rate.d) \div rate.n

-----------------------------------------------------------------------------
(* The two-deck revision: tempo sync and time-stretch hand-off *)

Decks == {"A", "B"}
\* KEY_MAP
PadKeys == {"a", "s", "d", "f"}
Paths == {"p1", "p2"}

\* tempo the analysis estimates for each file (p2 is silent: tempo 0)
TempoOf == [p \in Paths |-> IF p = "p1" THEN 1000 ELSE 0]

\* master tempi a tap sequence can produce (taps at most 2 s apart)
TapBPMs == {1000, 1200}

\* positions a hot cue, a seek or the playhead can be at
Positions == {0, 5000}

VARIABLES
    master_bpm,     \* LooperApp.master_bpm
    vid_sync,       \* btn_vid_sync.isChecked()
    bank_data,      \* bank_data[current_bank]: pad key -> path
    active_clip,    \* active_clip_a / active_clip_b
    clip_meta,      \* path -> tempo, NoTempo while the path has no entry
    deck,           \* deck_a / deck_b
    prep_workers,   \* AudioAnalysisWorker threads in flight
    rb_workers,     \* RubberBandWorker threads in flight
    rateGen,        \* history: rate changes issued to each deck
    appliedGen,     \* history: request generation of the rendition last swapped in
    crossfader_value, \* LooperApp.crossfader_value
    last_op         \* history: the handler that ran last, with its arguments

syncVars == <<master_bpm, vid_sync, bank_data, active_clip, clip_meta, deck,
              prep_workers, rb_workers, rateGen, appliedGen, crossfader_value>>

Op(name, who, arg) == [op |-> name, who |-> who, arg |-> arg]
\* recorded by the handlers whose effect no property reads back from last_op
Unobserved == Op("-", None, 0)

\* state of the four-track revision
VARIABLES
    tracks,                     \* LooperApp.tracks: key -> VJDeck
    clip_sequencer_data,        \* path -> [present, points, loop_start, loop_length]
    active_edit_track,          \* LooperApp.active_edit_track
    piano_roll,                 \* PianoRollSequencer: points, loop_start, loop_length
    seq_running,                \* LooperApp.seq_running (seq_timer is active exactly then)
    seq_multiplier,             \* LooperApp.seq_multiplier
    transport_start_time,       \* LooperApp.transport_start_time, ms
    last_processed_step_global, \* LooperApp.last_processed_step_global
    now,                        \* time.time(), ms
    fired,                      \* history: the triggers of the last scheduler tick, in order
    edits,                      \* history: loads, pattern edits and sequencer starts so far
    buttons,                    \* LooperApp.buttons: key -> pad display (bpm, duration, loading)
    current_bank,               \* LooperApp.current_bank; bank_data is bank_data[current_bank]
    current_generation,         \* LooperApp.current_generation
    bank_store,                 \* LooperApp.bank_data of the banks that are not current
    midi_map,                   \* LooperApp.midi_map: action -> bound note, or NoBinding
    invoked,                    \* history: the actions the last MIDI message invoked, in order
    roundTrip,                  \* a position, a ratio and the audio position a swap maps it to
    session,                    \* the persisted dictionaries, with the Python type of each key
    mute_states,                \* LooperApp.mute_states: key -> bool
    faders,                     \* LooperApp.faders[key].value(), 0..100
    crossing,                   \* a zero-crossing query: revision, clip, target and result
    jdeck,                      \* the RAM-loop deck: main output, RamLoopPlayer, video player
    ramp                        \* one attack in double precision: attack_ms, state, level, ticks

\* the mixer strip, the zero-crossing query and the RAM-loop deck
mixerVars == <<mute_states, faders>>
extraVars == <<mixerVars, crossing, jdeck, ramp>>

\* the pad displays, the banks and the MIDI bindings
uiVars == <<buttons, current_bank, current_generation, bank_store, midi_map, invoked>>

seqVars == <<tracks, clip_sequencer_data, active_edit_track, piano_roll, seq_running,
             seq_multiplier, transport_start_time, last_processed_step_global, now, fired,
             edits, uiVars>>

oFrame == UNCHANGED <<seqVars, roundTrip, session, extraVars>>

-----------------------------------------------------------------------------
(* Sessions: save_set writes the dictionaries as JSON, load_set reads them.   *)
(* A dictionary is a function on typed keys: JSON turns every key into a      *)
(* string, and only an int() cast on load turns it back.                      *)

\* the int n, the string str(n), and a string that int() rejects
IntKey(n) == [kind |-> "int", v |-> n]

StrKey(n) == [kind |-> "str", v |-> n]

BadKey == [kind |-> "bad", v |-> 0]

\* {}
EmptyDict == [k \in {} |-> 0]

\* d[k] = val
Put(d, k, val) == [x \in DOMAIN d \cup {k} |-> IF x = k THEN val ELSE d[x]]

\* json.dump followed by json.load: every key comes back as a string; when
\* str(n) and n are both keys the later one, the int, is the one that survives
JsonKeys(d) ==
    LET str(k) == IF k.kind = "int" THEN StrKey(k.v) ELSE k
    IN  [k \in {str(j) : j \in DOMAIN d} |->
            IF k.kind = "str" /\ IntKey(k.v) \in DOMAIN d THEN d[IntKey(k.v)] ELSE d[k]]

\* does int(k) succeed for every key of d
CanIntCast(d) == \A k \in DOMAIN d : k.kind # "bad"

\* {int(k): v for k, v in d.items()}
IntCast(d) ==
    [k \in {IntKey(j.v) : j \in DOMAIN d} |->
        IF IntKey(k.v) \in DOMAIN d THEN d[IntKey(k.v)] ELSE d[StrKey(k.v)]]

\* the banks, the steps of a pattern and the hot-cue numbers that are used
SessionBanks == {0, 1}

SessionSteps == {0, 16}

CueNumbers == {1, 2}

\* a field of a file: absent, or present with its dictionary
Absent == [present |-> FALSE, val |-> EmptyDict]

Field(d) == [present |-> TRUE, val |-> d]

\* no file has been written
NoFile == [written |-> FALSE, banks |-> Absent, points |-> Absent, hotcues |-> Absent]

\* the in-memory dictionaries of one clip on pad a: bank_data (bank -> path),
\* clip_sequencer_data / clip_patterns (step -> value), hotcue_data (number -> ms)
MemOf(s) == [bank_data |-> s.bank_data, points |-> s.points, hotcues |-> s.hotcues]

\* LooperApp.__init__ of revision rev ("o" four-track, "k" two-deck)
NewSession(rev) ==
    [rev |-> rev,
     bank_data |-> [k \in {IntKey(b) : b \in SessionBanks} |-> None],
     points |-> EmptyDict,
     hotcues |-> EmptyDict,
     file |-> NoFile,
     saved |-> [bank_data |-> EmptyDict, points |-> EmptyDict, hotcues |-> EmptyDict],
     error |-> ""]

\* LooperApp.switch_bank(0) at the end of load_set: bank_data[0] must exist
SessionSwitchBank(s) ==
    IF IntKey(0) \in DOMAIN s.bank_data THEN s ELSE [s EXCEPT !.error = "KeyError"]

\* LooperApp.save_set: vidz-o writes banks and sequencer, vidz-k banks, hotcues
\* and patterns
SaveSetOf(s) ==
    [s EXCEPT !.file = [written |-> TRUE,
                        banks |-> Field(JsonKeys(s.bank_data)),
                        points |-> Field(JsonKeys(s.points)),
                        hotcues |-> IF s.rev = "k" THEN Field(JsonKeys(s.hotcues))
                                    ELSE Absent],
              !.saved = MemOf(s),
              !.error = ""]

\* LooperApp.load_set of vidz-o on file f, up to the statement that raises
LoadSetO(s, f) ==
    IF ~f.banks.present THEN [s EXCEPT !.error = "KeyError"]
    ELSE LET s1 == [s EXCEPT !.bank_data = f.banks.val, !.error = ""]
         IN  IF f.points.present /\ ~CanIntCast(f.points.val)
             THEN [s1 EXCEPT !.points = EmptyDict, !.error = "ValueError"]
             ELSE SessionSwitchBank(
                      [s1 EXCEPT !.points = IF f.points.present
                                            THEN IntCast(f.points.val) ELSE EmptyDict])

\* LooperApp.load_set of vidz-k on file f, up to the statement that raises
LoadSetK(s, f) ==
    IF f.banks.present
    THEN IF ~CanIntCast(f.banks.val) THEN [s EXCEPT !.error = "ValueError"]
         ELSE LET s1 == [s EXCEPT !.bank_data = IntCast(f.banks.val),
                                  !.hotcues = IF f.hotcues.present THEN f.hotcues.val
                                              ELSE EmptyDict,
                                  !.error = ""]
              IN  IF f.points.present /\ ~CanIntCast(f.points.val)
                  THEN [s1 EXCEPT !.error = "ValueError"]
                  ELSE SessionSwitchBank(
                           [s1 EXCEPT !.points = IF f.points.present
                                                 THEN IntCast(f.points.val)
                                                 ELSE EmptyDict])
    ELSE \* the whole file is read as the banks: its keys are the field names
         IF f.points.present \/ f.hotcues.present
         THEN [s EXCEPT !.error = "ValueError"]
         ELSE SessionSwitchBank([s EXCEPT !.bank_data = EmptyDict, !.error = ""])

\* files that were not written by save_set: 1 lacks 'banks', 2 has a step key
\* that is not a number
ForeignFile(id) ==
    IF id = 1
    THEN [written |-> TRUE, banks |-> Absent,
          points |-> Field([k \in {StrKey(0)} |-> 1]), hotcues |-> Absent]
    ELSE [written |-> TRUE,
          banks |-> Field([k \in {StrKey(b) : b \in SessionBanks} |->
                              IF k.v = 0 THEN "p1" ELSE None]),
          points |-> Field([k \in {BadKey} |-> 1]), hotcues |-> Absent]

-----------------------------------------------------------------------------
(* Double precision. fade_level is a Python float: 5.0 / attack_ms and each   *)
(* += are rounded to 53 significant bits, to nearest, ties to even. A value   *)
(* is the sequence of its bits, most significant first, bit i weighing        *)
(* 2^(3 - i); every level and step of an attack (between 5/200 and 6) is a    *)
(* multiple of 2^-58 and fits, with five more bits for the rounding of a      *)
(* quotient.                                                                  *)

FloatWidth == 66
FloatBits == 1..FloatWidth
MantissaBits == 53

FZero == [i \in FloatBits |-> 0]
FOne == [i \in FloatBits |-> IF i = 3 THEN 1 ELSE 0]

\* the exact sum of two values (no carry out of the top bit below 8): the
\* carry into bit i is generated at some lower bit j and propagated by
\* every bit between
AddBits(x, y) ==
    [i \in FloatBits |->
        LET carry == \E j \in (i + 1)..FloatWidth :
                        /\ x[j] = 1
                        /\ y[j] = 1
                        /\ \A k \in (i + 1)..(j - 1) : x[k] + y[k] = 1
        IN  (x[i] + y[i] + (IF carry THEN 1 ELSE 0)) % 2]

\* round to 53 significant bits, to nearest, ties to even; sticky tells
\* that the exact value has nonzero bits below the last one of the sequence
Round53(x, sticky) ==
    IF \A i \in FloatBits : x[i] = 0 THEN x
    ELSE LET top == CHOOSE i \in FloatBits : x[i] = 1 /\ \A j \in 1..(i - 1) : x[j] = 0
             last == top + MantissaBits - 1
         IN  IF last >= FloatWidth THEN x
             ELSE LET rest == sticky \/ \E j \in (last + 2)..FloatWidth : x[j] = 1
                      up == x[last + 1] = 1 /\ (rest \/ x[last] = 1)
                  IN  [i \in FloatBits |->
                        IF i > last THEN 0
                        ELSE IF up /\ \A j \in (i + 1)..last : x[j] = 1 THEN 1 - x[i]
                        ELSE x[i]]

\* x + y of two floats: the exact sum, then the rounding
FAdd(x, y) == CHOOSE r \in {Round53(sum, FALSE) : sum \in {AddBits(x, y)}} : TRUE

\* long division of 5.0 by a, ChunkBits bits at a time: the remainder after
\* the first c chunks (5.0 lies in the first chunk)
ChunkBits == 11
ChunkOfFive(c) == IF c = 1 THEN 5 * 2^(ChunkBits - 3) ELSE 0

RECURSIVE RemAfter(_, _)
RemAfter(a, c) ==
    IF c = 0 THEN 0
    ELSE (RemAfter(a, c - 1) * 2^ChunkBits + ChunkOfFive(c)) % a

\* 5.0 / a for an integer a >= 1: the quotient bits, then the rounding
FDiv5(a) ==
    LET q == [i \in FloatBits |->
                LET c == (i - 1) \div ChunkBits + 1
                    k == (i - 1) % ChunkBits
                    chunk == (RemAfter(a, c - 1) * 2^ChunkBits + ChunkOfFive(c)) \div a
                IN  (chunk \div 2^(ChunkBits - 1 - k)) % 2]
    IN  CHOOSE r \in {Round53(bits, RemAfter(a, FloatWidth \div ChunkBits) # 0) : bits \in {q}} : TRUE

\* x >= 1.0
FGeqOne(x) == \E i \in 1..3 : x[i] = 1

\* VJDeck.__init__: IDLE at level 0.0, attack 10 ms
RampInit == [attack_ms |-> 10, envelope_state |-> "IDLE", fade_level |-> FZero, ticks |-> 0]

\* no zero-crossing query asked yet
NoCrossing == [rev |-> "-", loaded |-> FALSE, dur |-> 0, target_ms |-> 0, result |-> 0]

\* vidz-j VJDeck.__init__ and RamLoopPlayer.__init__: nothing loaded
JDeckInit == [audio_data |-> FALSE, muted |-> FALSE, is_playing |-> FALSE,
              loop_start_ms |-> 0, loop_timer |-> 0, video_pos |-> 0, playing |-> FALSE]

\* LooperApp.__init__: mute_states all False, the faders at 100
ExtraInit ==
    /\ mute_states = [k \in PadKeys |-> FALSE]
    /\ faders = [k \in PadKeys |-> 100]
    /\ crossing = NoCrossing
    /\ jdeck = JDeckInit
    /\ ramp = RampInit

DeckInit == [current_filepath |-> None, base_wav_path |-> None,
             playback_rate |-> One, video_pos |-> 0,
             audio_source |-> None, source_ratio |-> One, source_gen |-> 0,
             audio_rate |-> One, audio_pos |-> 0,
             target_volume |-> One, fade_level |-> One, fade_timer |-> FALSE,
             main_volume |-> One, opacity |-> One]

\* VJDeck.set_volume: the gain is left to _process_fade while a fade-in runs
DeckSetVolume(dk, vol) ==
    [dk EXCEPT !.target_volume = vol,
               !.main_volume = IF dk.fade_timer THEN dk.main_volume ELSE vol]

\* LooperApp.update_mixer: the linear crossfade law on both decks
UpdateMixerSwapped(decks, val) ==
    [d \in DOMAIN decks |->
        LET vol == IF d = "A" THEN val ELSE RatSub(One, val)
        IN  [DeckSetVolume(decks[d], vol) EXCEPT !.opacity = vol]]

UpdateMixer(decks, val) ==
    [d \in DOMAIN decks |->
        LET vol == IF d = "A" THEN RatSub(One, val) ELSE val
        IN  [DeckSetVolume(decks[d], vol) EXCEPT !.opacity = vol]]

SyncInit ==
    /\ master_bpm = 1200
    /\ vid_sync = TRUE
    /\ bank_data = [k \in PadKeys |-> None]
    /\ active_clip = [d \in Decks |-> None]
    /\ clip_meta = [p \in Paths |-> NoTempo]
    /\ crossfader_value = Zero
    /\ deck = UpdateMixer([d \in Decks |-> DeckInit], Zero)
    /\ prep_workers = {}
    /\ rb_workers = {}
    /\ rateGen = [d \in Decks |-> 0]
    /\ appliedGen = [d \in Decks |-> 0]
    /\ last_op = Op("init", None, 0)

\* VJDeck.switch_audio_source: swap the audio file, keeping the video position
SwitchAudioSource(dk, kind, ratio, gen, reset_rate_to_video) ==
    IF reset_rate_to_video
    THEN [dk EXCEPT !.audio_source = kind, !.source_ratio = ratio, !.source_gen = gen,
                    !.audio_rate = dk.playback_rate,
                    !.audio_pos = dk.video_pos]
    ELSE [dk EXCEPT !.audio_source = kind, !.source_ratio = ratio, !.source_gen = gen,
                    !.audio_rate = One,
                    !.audio_pos = MapToAudio(dk.video_pos, dk.playback_rate)]

\* VJDeck.load_base_audio ("" is the path a failed analysis reports: no media)
LoadBaseAudio(dk, wav) ==
    SwitchAudioSource([dk EXCEPT !.base_wav_path = wav],
                      IF wav = "" THEN None ELSE "base", One, 0, TRUE)

\* a variant that sets the video rate only
SetPlaybackRateVideoOnly(dk, rate) == [dk EXCEPT !.playback_rate = rate]

\* VJDeck.setPlaybackRate: video rate plus instant pitch-shifted audio rate
SetPlaybackRate(dk, rate) ==
    LET d1 == [dk EXCEPT !.playback_rate = rate]
    IN  IF dk.base_wav_path \notin {None, ""}
        THEN LET d2 == IF d1.audio_rate = One
                       THEN SwitchAudioSource(d1, "base", One, 0, TRUE)
                       ELSE d1
             IN  [d2 EXCEPT !.audio_rate = rate]
        ELSE d1

\* the audio position VJDeck.trigger and VJDeck.seek compute
AudioPosForUnmapped(dk, pos) == pos

AudioPosFor(dk, pos) ==
    IF dk.audio_rate = One /\ dk.playback_rate # One
    THEN MapToAudio(pos, dk.playback_rate)
    ELSE pos

\* VJDeck.trigger (raw_samples is never set in this revision, so
\* find_zero_crossing returns the requested position) and VJDeck.seek
DeckSetPosition(dk, pos) ==
    [dk EXCEPT !.video_pos = pos, !.audio_pos = AudioPosFor(dk, pos)]

\* the anti-pop part of VJDeck.trigger: gain to 0, fade-in started
DeckStartFade(dk) ==
    [dk EXCEPT !.fade_level = Zero, !.main_volume = Zero, !.fade_timer = TRUE]

\* VJDeck._process_fade
DeckProcessFade(dk) ==
    LET l == RatAdd(dk.fade_level, Rat(1, 10))
        done == RatLeq(One, l)
        level == IF done THEN One ELSE l
    IN  [dk EXCEPT !.fade_level = level,
                   !.fade_timer = ~done,
                   !.main_volume = RatMul(dk.target_volume, level)]

\* the tempo LooperApp.sync_deck_speed reads: clip_meta.get(path, 120.0)
ClipBpm(path) == IF clip_meta[path] = NoTempo THEN 1200 ELSE clip_meta[path]

\* the ratio LooperApp.sync_deck_speed computes
SyncRate(clip_bpm, master) ==
    IF clip_bpm > 0 /\ master > 0 THEN Rat(master, clip_bpm) ELSE One

\* the path LooperApp.sync_deck_speed resolves for a deck, None when it returns early
SyncPath(d) ==
    IF active_clip[d] = None THEN None ELSE bank_data[active_clip[d]]

\* does sync_deck_speed(d) start a RubberBandWorker
SyncSpawns(d) == SyncPath(d) # None /\ deck[d].base_wav_path \notin {None, ""}

\* LooperApp.sync_deck_speed applied to each deck of ds, with master tempo bpm
SyncDecks(ds, bpm) ==
    LET hit == {d \in ds : SyncPath(d) # None}
    IN  /\ \A d \in hit : rateGen[d] < MaxReq
        /\ Cardinality(rb_workers) + Cardinality({d \in hit : SyncSpawns(d)}) <= MaxWorkers
        /\ deck' = [d \in Decks |->
                      IF d \in hit
                      THEN SetPlaybackRate(deck[d], SyncRate(ClipBpm(SyncPath(d)), bpm))
                      ELSE deck[d]]
        /\ rateGen' = [d \in Decks |-> IF d \in hit THEN rateGen[d] + 1 ELSE rateGen[d]]
        /\ rb_workers' = rb_workers \cup
               {[deck |-> d, ratio |-> SyncRate(ClipBpm(SyncPath(d)), bpm),
                 gen |-> rateGen[d] + 1] : d \in {e \in hit : SyncSpawns(e)}}

\* LooperApp.start_processing: one more analysis thread for (key, filepath)
NewPrepWorker(key, filepath) ==
    [key |-> key, filepath |-> filepath,
     id |-> CHOOSE i \in 1..(MaxPrep + 1) :
              /\ [key |-> key, filepath |-> filepath, id |-> i] \notin prep_workers
              /\ \A j \in 1..(i - 1) :
                    [key |-> key, filepath |-> filepath, id |-> j] \in prep_workers]

\* LooperApp.assign_clip_to_bank
AssignClipToBank(key, path) ==
    /\ oFrame
    /\ last_op' = Unobserved
    /\ Cardinality(prep_workers) < MaxPrep
    /\ bank_data' = [bank_data EXCEPT ![key] = path]
    /\ prep_workers' = prep_workers \cup {NewPrepWorker(key, path)}
    /\ UNCHANGED <<master_bpm, vid_sync, active_clip, clip_meta, deck, rb_workers,
                   rateGen, appliedGen, crossfader_value>>

\* LooperApp.assign_to_deck: load the video, re-run the analysis
AssignToDeck(d, key) ==
    /\ oFrame
    /\ last_op' = Unobserved
    /\ bank_data[key] # None
    /\ Cardinality(prep_workers) < MaxPrep
    /\ deck' = [deck EXCEPT ![d].current_filepath = bank_data[key], ![d].video_pos = 0]
    /\ active_clip' = [active_clip EXCEPT ![d] = key]
    /\ prep_workers' = prep_workers \cup {NewPrepWorker(key, bank_data[key])}
    /\ UNCHANGED <<master_bpm, vid_sync, bank_data, clip_meta, rb_workers,
                   rateGen, appliedGen, crossfader_value>>

\* LooperApp.on_prep_done with the result of AudioAnalysisWorker.run:
\* ok = the file was decoded, else the except branch (120.0, no wav)
OnPrepDone(w, ok) ==
    /\ oFrame
    /\ last_op' = Unobserved
    /\ w \in prep_workers
    /\ prep_workers' = prep_workers \ {w}
    /\ LET bpm == IF ok THEN TempoOf[w.filepath] ELSE 1200
           wav == IF ok THEN w.filepath ELSE ""
           path == bank_data[w.key]
       IN  IF path # None
           THEN /\ clip_meta' = [clip_meta EXCEPT ![path] = bpm]
                /\ deck' = [d \in Decks |->
                              IF active_clip[d] = w.key
                              THEN LoadBaseAudio(deck[d], wav) ELSE deck[d]]
           ELSE UNCHANGED <<clip_meta, deck>>
    /\ UNCHANGED <<master_bpm, vid_sync, bank_data, active_clip, rb_workers,
                   rateGen, appliedGen, crossfader_value>>

\* LooperApp.toggle_vid_sync
ToggleVidSync ==
    /\ oFrame
    /\ last_op' = Unobserved
    /\ vid_sync' = ~vid_sync
    /\ IF ~vid_sync
       THEN SyncDecks(Decks, master_bpm)
       ELSE /\ \A d \in Decks : rateGen[d] < MaxReq
            /\ deck' = [d \in Decks |-> SetPlaybackRate(deck[d], One)]
            /\ rateGen' = [d \in Decks |-> rateGen[d] + 1]
            /\ UNCHANGED rb_workers
    /\ UNCHANGED <<master_bpm, bank_data, active_clip, clip_meta, prep_workers, appliedGen, crossfader_value>>

\* LooperApp.handle_tap_tempo, for a tap sequence whose average gives bpm
HandleTapTempo(bpm) ==
    /\ oFrame
    /\ last_op' = Unobserved
    /\ master_bpm' = bpm
    /\ IF vid_sync
       THEN SyncDecks(Decks, bpm)
       ELSE UNCHANGED <<deck, rateGen, rb_workers>>
    /\ UNCHANGED <<vid_sync, bank_data, active_clip, clip_meta, prep_workers, appliedGen, crossfader_value>>

\* RubberBandWorker.run reaches finished.emit; LooperApp.on_rubberband_done
OnRubberbandDone(w) ==
    /\ oFrame
    /\ last_op' = Op("on_rubberband_done", w.deck, w.gen)
    /\ w \in rb_workers
    /\ rb_workers' = rb_workers \ {w}
    /\ deck' = [deck EXCEPT ![w.deck] =
                   SwitchAudioSource(deck[w.deck], "stretch", w.ratio, w.gen, FALSE)]
    /\ appliedGen' = [appliedGen EXCEPT ![w.deck] = w.gen]
    /\ UNCHANGED <<master_bpm, vid_sync, bank_data, active_clip, clip_meta,
                   prep_workers, rateGen, crossfader_value>>

\* RubberBandWorker.run returns without emitting (tool missing, process error)
RubberbandFail(w) ==
    /\ oFrame
    /\ last_op' = Op("rubberband_fail", w.deck, w.gen)
    /\ w \in rb_workers
    /\ rb_workers' = rb_workers \ {w}
    /\ UNCHANGED <<master_bpm, vid_sync, bank_data, active_clip, clip_meta, deck,
                   prep_workers, rateGen, appliedGen, crossfader_value>>

\* LooperApp.handle_hotcue -> VJDeck.trigger(pos)
DeckTrigger(d, pos) ==
    /\ oFrame
    /\ last_op' = Op("trigger", d, pos)
    /\ SyncPath(d) # None
    /\ deck' = [deck EXCEPT ![d] = DeckStartFade(DeckSetPosition(deck[d], pos))]
    /\ UNCHANGED <<master_bpm, vid_sync, bank_data, active_clip, clip_meta,
                   prep_workers, rb_workers, rateGen, appliedGen, crossfader_value>>

\* LooperApp.auto_align_phase / _execute_play_synced -> VJDeck.seek(pos)
DeckSeek(d, pos) ==
    /\ oFrame
    /\ last_op' = Op("seek", d, pos)
    /\ deck[d].current_filepath # None
    /\ deck' = [deck EXCEPT ![d] = DeckSetPosition(deck[d], pos)]
    /\ UNCHANGED <<master_bpm, vid_sync, bank_data, active_clip, clip_meta,
                   prep_workers, rb_workers, rateGen, appliedGen, crossfader_value>>


\* the fade_timer timeout of deck d: VJDeck._process_fade
ProcessFade(d) ==
    /\ oFrame
    /\ last_op' = Op("process_fade", d, 0)
    /\ deck[d].fade_timer
    /\ deck' = [deck EXCEPT ![d] = DeckProcessFade(deck[d])]
    /\ UNCHANGED <<master_bpm, vid_sync, bank_data, active_clip, clip_meta,
                   prep_workers, rb_workers, rateGen, appliedGen, crossfader_value>>

\* LooperApp.on_fader_ui_changed with the slider value (0..100)
OnFaderUiChanged(value) ==
    /\ oFrame
    /\ last_op' = Op("on_fader_ui_changed", None, value)
    /\ crossfader_value' = Rat(value, 100)
    /\ deck' = UpdateMixer(deck, crossfader_value')
    /\ UNCHANGED <<master_bpm, vid_sync, bank_data, active_clip, clip_meta,
                   prep_workers, rb_workers, rateGen, appliedGen>>

-----------------------------------------------------------------------------
(* The four-track revision: envelope, step clock, per-clip loop windows *)

\* a variant that visits track s before track a
TrackOrderSwapped == <<"s", "a", "d", "f">>

\* order in which trigger_all_tracks_for_step visits the tracks
TrackOrder == <<"a", "s", "d", "f">>

\* player.duration() of each file, in ms
DurationOf == [p \in Paths |-> IF p = "p1" THEN 8000 ELSE 4000]

\* the steps run_sequencer_step may process in one tick before it jumps
CatchUpClamp == 16

\* VJDeck.__init__
TrackInit == [current_filepath |-> None, seq_current_step |-> 0,
              attack_ms |-> 10, release_ms |-> 10,
              fade_level |-> Zero, envelope_state |-> "IDLE", fade_timer |-> FALSE,
              playing |-> FALSE, muted |-> FALSE,
              video_pos |-> 0, audio_pos |-> 0,
              playback_rate |-> One, bass_rate |-> One,
              raw_samples |-> None, sample_rate |-> 44100,
              target_volume |-> One, filter_val |-> 50,
              opacity |-> One, gain_bass |-> One, gain_treble |-> One]

\* a path that is not a key of clip_sequencer_data
NoSeqData == [present |-> FALSE, points |-> <<>>, loop_start |-> 0, loop_length |-> 64]

\* PianoRollSequencer.__init__
PianoRollInit == [points |-> <<>>, loop_start |-> 0, loop_length |-> 64]

\* the banks of LooperApp.bank_data (two of the three are modelled)
Banks == {0, 1}

\* the actions of LooperApp.midi_map that are bound here, in the order of the
\* dict, and the keys of the tracks they trigger
MidiActions == <<"TRIGGER_A", "TRIGGER_S">>

MidiTrackOf == [a \in {"TRIGGER_A", "TRIGGER_S"} |-> IF a = "TRIGGER_A" THEN "a" ELSE "s"]

\* the notes a controller sends
MidiNotes == {36, 37}

\* the value of an action of midi_map that has no binding
NoBinding == -1

\* WaveformButton.__init__
ButtonInit == [bpm |-> NoTempo, track_duration |-> 0, loading |-> FALSE]

\* the pad displays, the banks and the MIDI bindings after LooperApp.__init__
UiInit ==
    /\ buttons = [k \in PadKeys |-> ButtonInit]
    /\ current_bank = 0
    /\ current_generation = 0
    /\ bank_store = [b \in Banks |-> [k \in PadKeys |-> None]]
    /\ midi_map = [a \in {"TRIGGER_A", "TRIGGER_S"} |-> NoBinding]
    /\ invoked = <<>>

SeqInit ==
    /\ tracks = [k \in PadKeys |-> TrackInit]
    /\ clip_sequencer_data = [p \in Paths |-> NoSeqData]
    /\ active_edit_track = "a"
    /\ piano_roll = PianoRollInit
    /\ seq_running = FALSE
    /\ seq_multiplier = One
    /\ transport_start_time = 0
    /\ last_processed_step_global = -1
    /\ now = 0
    /\ fired = <<>>
    /\ edits = 0
    /\ UiInit

\* VJDeck.duration
Duration(t) == IF t.current_filepath = None THEN 0 ELSE DurationOf[t.current_filepath]

\* frame rate and sample values of each decoded file
SampleRateOf == [p \in Paths |-> 100]
SamplesLen(p) == (DurationOf[p] * SampleRateOf[p]) \div 1000
SampleAt(p, i) == ((i * 7) % 23) - 11

Abs(x) == IF x < 0 THEN -x ELSE x
Max(a, b) == IF a > b THEN a ELSE b
Min(a, b) == IF a < b THEN a ELSE b

\* VJDeck.find_zero_crossing: the first sample of least amplitude within 20 ms
FindZeroCrossing(t, target_ms) ==
    IF t.raw_samples = None THEN target_ms
    ELSE LET p == t.raw_samples
             idx == (target_ms * t.sample_rate) \div 1000
             search_window == (2 * t.sample_rate) \div 100
             start == Max(0, idx - search_window)
             end == Min(SamplesLen(p), idx + search_window)
         IN  IF start >= end THEN target_ms
             ELSE LET min_idx == CHOOSE i \in start..(end - 1) :
                                    /\ \A j \in start..(end - 1) :
                                          Abs(SampleAt(p, i)) <= Abs(SampleAt(p, j))
                                    /\ \A j \in start..(i - 1) :
                                          Abs(SampleAt(p, j)) > Abs(SampleAt(p, i))
                  IN  (min_idx * 1000) \div t.sample_rate

\* the audio position VJDeck.trigger and VJDeck.seek compute (four-track revision)
TrackAudioPos(t, pos) ==
    IF t.bass_rate = One /\ t.playback_rate # One
    THEN MapToAudio(pos, t.playback_rate)
    ELSE pos

\* VJDeck.trigger (player.play() starts nothing while no source is set)
\* the analysis of the RAM-loop revision keeps the samples of the first minute
VisCapMs == 60000
\* their rate (11025 Hz in the source), on the scale of SampleRateOf
VisSampleRate == 100

\* LooperApp.find_nearest_zero_crossing of the RAM-loop revision, for a clip
\* of dur ms: the requested index is clamped into the analysed samples
FindNearestZeroCrossing(loaded, dur, target_ms) ==
    IF ~loaded THEN target_ms
    ELSE LET sr == VisSampleRate
             n == (Min(dur, VisCapMs) * sr) \div 1000
             target_sample == Max(0, Min((target_ms * sr) \div 1000, n - 1))
             window == (2 * sr) \div 100
             start == Max(0, target_sample - window)
             end == Min(n, target_sample + window)
         IN  IF start >= end THEN target_ms
             ELSE LET min_idx == CHOOSE i \in start..(end - 1) :
                                    /\ \A j \in start..(end - 1) :
                                          Abs(SampleAt("p1", i)) <= Abs(SampleAt("p1", j))
                                    /\ \A j \in start..(i - 1) :
                                          Abs(SampleAt("p1", j)) > Abs(SampleAt("p1", i))
                  IN  (min_idx * 1000) \div sr

\* VJDeck.trigger up to and including setMuted(False): the outputs were
\* muted and the item made transparent, the players sought and started, and
\* fade_level reset; neither the outputs' volumes nor envelope_state have
\* been written yet
TrackAtUnmute(t, pos) ==
    LET safe_pos == FindZeroCrossing(t, pos)
    IN  [t EXCEPT !.video_pos = safe_pos,
                  !.audio_pos = TrackAudioPos(t, safe_pos),
                  !.playing = (t.current_filepath # None),
                  !.fade_level = Zero,
                  !.muted = FALSE,
                  !.opacity = Zero]

\* VJDeck.trigger: after the unmute, the envelope enters ATTACK and the
\* fade timer is started
TrackTrigger(t, pos) ==
    [TrackAtUnmute(t, pos) EXCEPT !.envelope_state = "ATTACK",
                                  !.fade_timer = TRUE]

\* VJDeck.pause
TrackPause(t) == [t EXCEPT !.playing = FALSE]

\* the level an ATTACK tick reaches
AttackLevelUnclamped(level, attack_ms) == RatAdd(level, Rat(5, attack_ms))

AttackLevel(level, attack_ms) ==
    LET l == RatAdd(level, Rat(5, attack_ms))
    IN  IF RatLeq(One, l) THEN One ELSE l

\* VJDeck.apply_volume: opacity and the two band gains from volume, level and filter
ApplyVolume(t) ==
    LET base_vol == RatMul(t.target_volume, t.fade_level)
        bass_mult == IF t.filter_val <= 50 THEN One
                     ELSE RatSub(One, Rat(t.filter_val - 50, 50))
        treble_mult == IF t.filter_val <= 50 THEN Rat(t.filter_val, 50) ELSE One
    IN  [t EXCEPT !.opacity = base_vol,
                  !.gain_bass = RatMul(base_vol, bass_mult),
                  !.gain_treble = RatMul(base_vol, treble_mult)]

\* a variant whose attack starts over from 0 at the top instead of holding 1
EnvelopeStepRestart(t) ==
    IF t.envelope_state = "ATTACK"
    THEN LET l == AttackLevel(t.fade_level, t.attack_ms)
         IN  [t EXCEPT !.fade_level = IF l = One THEN Zero ELSE l]
    ELSE t

\* VJDeck._process_envelope up to its call of apply_volume
EnvelopeStep(t) ==
    CASE t.envelope_state = "ATTACK" ->
            LET l == AttackLevel(t.fade_level, t.attack_ms)
            IN  [t EXCEPT !.fade_level = l,
                          !.envelope_state = IF l = One THEN "SUSTAIN" ELSE "ATTACK"]
      [] t.envelope_state = "RELEASE" ->
            LET l == RatSub(t.fade_level, Rat(5, t.release_ms))
            IN  IF RatLeq(l, Zero)
                THEN [TrackPause(t) EXCEPT !.fade_level = Zero, !.envelope_state = "IDLE",
                                           !.fade_timer = FALSE]
                ELSE [t EXCEPT !.fade_level = l]
      [] t.envelope_state = "SUSTAIN" -> [t EXCEPT !.fade_level = One]
      [] OTHER -> t

\* VJDeck._process_envelope
TrackProcessEnvelope(t) == ApplyVolume(EnvelopeStep(t))

\* VJDeck.setPlaybackRate (base_wav_path is never set in this revision)
TrackSetPlaybackRate(t, rate) == [t EXCEPT !.playback_rate = rate, !.bass_rate = rate]

\* the ratio LooperApp.sync_deck computes (four-track revision)
SyncDeckRate(path, master) ==
    LET cb == IF path = None THEN 1200 ELSE ClipBpm(path)
    IN  IF cb > 0 THEN Rat(master, cb) ELSE One

\* LooperApp.sync_deck for every track
SyncAllTracks(trs, master) ==
    [k \in PadKeys |->
        TrackSetPlaybackRate(trs[k], SyncDeckRate(trs[k].current_filepath, master))]

\* LooperApp.update_curve_ui
UpdateCurveUi(trs, edit_track, data) ==
    LET path == trs[edit_track].current_filepath
        d == IF path = None \/ ~data[path].present
             THEN [points |-> <<>>, loop_start |-> 0, loop_length |-> 64]
             ELSE data[path]
    IN  [points |-> d.points, loop_start |-> d.loop_start, loop_length |-> d.loop_length]

\* total_steps of run_sequencer_step: int(elapsed_min * master_bpm * 4 * multiplier)
TotalSteps(t_now, start, bpm, mult) ==
    ((t_now - start) * bpm * 4 * mult.n) \div (600000 * mult.d)

\* a variant that does not wrap into the loop window
NextClipStepUnwrapped(step, ls, ll) == step + 1

\* the clip step trigger_all_tracks_for_step advances a track to
NextClipStep(step, ls, ll) == ls + ((step + 1 - ls) % ll)

\* trigger_all_tracks_for_step, one track: the track after global step g
StepTrack(t, data, g) ==
    IF t.current_filepath # None /\ data[t.current_filepath].present
    THEN LET sd == data[t.current_filepath]
             st == NextClipStep(t.seq_current_step, sd.loop_start, sd.loop_length)
             t1 == [t EXCEPT !.seq_current_step = st]
         IN  IF st \in DOMAIN sd.points
             THEN TrackTrigger(t1, (sd.points[st].n * Duration(t1)) \div sd.points[st].d)
             ELSE t1
    ELSE t

\* the trigger trigger_all_tracks_for_step performs on track k at global step g, if any
StepFired(k, t, data, g) ==
    IF t.current_filepath # None /\ data[t.current_filepath].present
    THEN LET sd == data[t.current_filepath]
             st == NextClipStep(t.seq_current_step, sd.loop_start, sd.loop_length)
         IN  IF st \in DOMAIN sd.points
             THEN << [key |-> k, step |-> st, g |-> g,
                      pos |-> (sd.points[st].n * Duration(t)) \div sd.points[st].d] >>
             ELSE <<>>
    ELSE <<>>

RECURSIVE FiredInOrder(_, _, _, _)
FiredInOrder(i, trs, data, g) ==
    IF i > Len(TrackOrder) THEN <<>>
    ELSE StepFired(TrackOrder[i], trs[TrackOrder[i]], data, g)
         \o FiredInOrder(i + 1, trs, data, g)

\* LooperApp.trigger_all_tracks_for_step at global step g
TriggerAllTracksForStep(trs, data, g) ==
    [tracks |-> [k \in PadKeys |-> StepTrack(trs[k], data, g)],
     fired |-> FiredInOrder(1, trs, data, g)]

\* the while loop of run_sequencer_step; steps counts its iterations
RECURSIVE ProcessSteps(_, _, _, _, _)
ProcessSteps(trs, data, last, total, acc) ==
    IF last < total
    THEN CHOOSE res \in
             {[ProcessSteps(r.tracks, data, last + 1, total, sofar) EXCEPT !.steps = @ + 1] :
                  r \in {TriggerAllTracksForStep(trs, data, last + 1)},
                  sofar \in {acc \o TriggerAllTracksForStep(trs, data, last + 1).fired}} : TRUE
    ELSE [tracks |-> trs, last |-> last, fired |-> acc, steps |-> 0]

\* a variant without the clamp: the whole backlog is processed
ClampedLastNever(last, total) == last

\* the catch-up clamp of run_sequencer_step
ClampedLast(last, total) ==
    IF total - last > CatchUpClamp THEN total - 1 ELSE last

\* run_sequencer_step once total_steps is known
SeqAdvanceResync(trs, data, last, total) ==
    IF total > last
    THEN ProcessSteps(trs, data, ClampedLast(last, total), total, <<>>)
    ELSE [tracks |-> trs, last |-> total, fired |-> <<>>, steps |-> 0]

SeqAdvance(trs, data, last, total) ==
    IF total > last
    THEN ProcessSteps(trs, data, ClampedLast(last, total), total, <<>>)
    ELSE [tracks |-> trs, last |-> last, fired |-> <<>>, steps |-> 0]

\* VJDeck.load_stems -> swap_audio(reset_rate=True)
TrackLoadStems(t) == [t EXCEPT !.bass_rate = t.playback_rate, !.audio_pos = t.video_pos]

kBase == UNCHANGED <<active_clip, deck, rb_workers, rateGen, appliedGen, crossfader_value,
                     roundTrip, session, crossing, jdeck, ramp>>
kFrame == kBase /\ UNCHANGED mixerVars

\* AudioAnalysisWorker(key, path, ..., current_generation) of load_track
NewAnalysisWorker(key, filepath, gen_id) ==
    [key |-> key, filepath |-> filepath, gen_id |-> gen_id,
     id |-> CHOOSE i \in 1..(MaxPrep + 1) :
              /\ [key |-> key, filepath |-> filepath, gen_id |-> gen_id, id |-> i]
                    \notin prep_workers
              /\ \A j \in 1..(i - 1) :
                    [key |-> key, filepath |-> filepath, gen_id |-> gen_id, id |-> j]
                        \in prep_workers]

\* VJDeck.load_video followed by VJDeck.play, as load_track calls them
LoadVideoAndPlay(t, path) ==
    TrackTrigger([t EXCEPT !.current_filepath = path, !.video_pos = 0, !.playing = FALSE], 0)

\* LooperApp.load_track: assign, analyse, load the video and play it
LoadTrack(k, path) ==
    /\ edits < MaxEdits
    /\ edits' = edits + 1
    /\ Cardinality(prep_workers) < MaxPrep
    /\ last_op' = Op("load_track", k, 0)
    /\ bank_data' = [bank_data EXCEPT ![k] = path]
    /\ buttons' = [buttons EXCEPT ![k].loading = TRUE]
    /\ prep_workers' = prep_workers \cup {NewAnalysisWorker(k, path, current_generation)}
    /\ tracks' = [tracks EXCEPT ![k] = LoadVideoAndPlay(tracks[k], path)]
    /\ piano_roll' = UpdateCurveUi(tracks', active_edit_track, clip_sequencer_data)
    /\ UNCHANGED <<master_bpm, vid_sync, clip_meta, clip_sequencer_data, active_edit_track,
                   seq_running, seq_multiplier, transport_start_time,
                   last_processed_step_global, now, fired>>
    /\ UNCHANGED <<current_bank, current_generation, bank_store, midi_map, invoked>>
    /\ kFrame

\* a variant whose except branch reports no tempo
AnalysisResultNoFallback(w, ok) ==
    IF ok
    THEN [bpm |-> TempoOf[w.filepath], dur |-> DurationOf[w.filepath],
          raw |-> w.filepath, rate |-> SampleRateOf[w.filepath]]
    ELSE [bpm |-> NoTempo, dur |-> 0, raw |-> None, rate |-> 44100]

\* what AudioAnalysisWorker.run emits: ok = the file was decoded, else the
\* except branch (120.0, 0, None, 44100)
AnalysisResult(w, ok) ==
    IF ok
    THEN [bpm |-> TempoOf[w.filepath], dur |-> DurationOf[w.filepath],
          raw |-> w.filepath, rate |-> SampleRateOf[w.filepath]]
    ELSE [bpm |-> 1200, dur |-> 0, raw |-> None, rate |-> 44100]

\* LooperApp.prep_done with the result of AudioAnalysisWorker.run
PrepDone(w, ok) ==
    /\ UNCHANGED edits
    /\ w \in prep_workers
    /\ last_op' = Op("prep_done", w.key, IF ok THEN 1 ELSE 0)
    /\ prep_workers' = prep_workers \ {w}
    /\ LET res == AnalysisResult(w, ok)
       IN  /\ IF bank_data[w.key] # None
              THEN /\ clip_meta' = [clip_meta EXCEPT ![bank_data[w.key]] = res.bpm]
                   /\ tracks' = [tracks EXCEPT ![w.key] =
                                   TrackLoadStems([tracks[w.key] EXCEPT
                                       !.raw_samples = res.raw,
                                       !.sample_rate = res.rate])]
              ELSE UNCHANGED <<clip_meta, tracks>>
           /\ buttons' = [buttons EXCEPT ![w.key] =
                             [bpm |-> res.bpm, track_duration |-> res.dur,
                              loading |-> FALSE]]
    /\ UNCHANGED <<master_bpm, vid_sync, bank_data, clip_sequencer_data, active_edit_track,
                   piano_roll, seq_running, seq_multiplier, transport_start_time,
                   last_processed_step_global, now, fired>>
    /\ UNCHANGED <<current_bank, current_generation, bank_store, midi_map, invoked>>
    /\ kFrame

\* LooperApp.switch_bank: the new bank becomes current, the generation is
\* bumped, and every pad that holds a clip in the new bank is loaded
SwitchBank(i) ==
    LET store == [bank_store EXCEPT ![current_bank] = bank_data]
        bank == store[i]
        loaded == {k \in PadKeys : bank[k] # None}
        gen == current_generation + 1
    IN  /\ current_generation < MaxSwitch
        /\ Cardinality(prep_workers) + Cardinality(loaded) <= MaxPrep
        /\ last_op' = Op("switch_bank", None, i)
        /\ current_bank' = i
        /\ current_generation' = gen
        /\ bank_store' = store
        /\ bank_data' = bank
        /\ buttons' = [k \in PadKeys |->
                          IF k \in loaded THEN [buttons[k] EXCEPT !.loading = TRUE]
                          ELSE buttons[k]]
        /\ prep_workers' = prep_workers \cup
                              {[key |-> k, filepath |-> bank[k], gen_id |-> gen, id |-> 1] :
                                   k \in loaded}
        /\ tracks' = [k \in PadKeys |->
                         IF k \in loaded THEN LoadVideoAndPlay(tracks[k], bank[k])
                         ELSE tracks[k]]
        /\ piano_roll' = UpdateCurveUi(tracks', active_edit_track, clip_sequencer_data)
        /\ UNCHANGED <<master_bpm, vid_sync, clip_meta, clip_sequencer_data,
                       active_edit_track, seq_running, seq_multiplier,
                       transport_start_time, last_processed_step_global, now, fired,
                       edits, midi_map, invoked>>
        /\ kFrame

\* VJDeck.seek(0) followed by VJDeck.play()
SeekAndPlay(t) ==
    TrackTrigger([t EXCEPT !.video_pos = 0, !.audio_pos = TrackAudioPos(t, 0)], 0)

\* a MIDI TRIGGER_x note: select_track_for_edit(k); seek(0); play(), with no
\* test for a loaded clip
MidiTrigger(k) ==
    /\ UNCHANGED edits
    /\ last_op' = Op("midi_trigger", k, 0)
    /\ active_edit_track' = k
    /\ tracks' = [tracks EXCEPT ![k] = SeekAndPlay(tracks[k])]
    /\ piano_roll' = UpdateCurveUi(tracks', k, clip_sequencer_data)
    /\ UNCHANGED <<master_bpm, vid_sync, bank_data, clip_meta, prep_workers,
                   clip_sequencer_data, seq_running, seq_multiplier, transport_start_time,
                   last_processed_step_global, now, fired>>
    /\ kFrame
    /\ UNCHANGED uiVars

\* the actions of midi_map whose binding matches the note, in the order the
\* loop of handle_midi_message visits them
MatchingActions(map, note) == SelectSeq(MidiActions, LAMBDA a : map[a] = note)

\* the TRIGGER_ branch of handle_midi_message, once per matching action
RECURSIVE InvokeAll(_, _)
InvokeAll(trs, acts) ==
    IF acts = <<>> THEN trs
    ELSE InvokeAll([trs EXCEPT ![MidiTrackOf[Head(acts)]] = SeekAndPlay(@)], Tail(acts))

\* MidiConfigDialog.on_midi_message while a row is learning
LearnBinding(action, note) ==
    /\ last_op' = Unobserved
    /\ midi_map' = [midi_map EXCEPT ![action] = note]
    /\ UNCHANGED <<master_bpm, vid_sync, bank_data, clip_meta, prep_workers>>
    /\ UNCHANGED <<tracks, clip_sequencer_data, active_edit_track, piano_roll, seq_running,
                   seq_multiplier, transport_start_time, last_processed_step_global, now,
                   fired, edits>>
    /\ UNCHANGED <<buttons, current_bank, current_generation, bank_store, invoked>>
    /\ kFrame

\* LooperApp.handle_midi_message for a note_on with velocity > 0
HandleMidiMessage(note) ==
    LET acts == MatchingActions(midi_map, note)
    IN  /\ last_op' = Op("handle_midi_message", None, note)
        /\ invoked' = acts
        /\ tracks' = InvokeAll(tracks, acts)
        /\ active_edit_track' = IF acts = <<>> THEN active_edit_track
                                ELSE MidiTrackOf[acts[Len(acts)]]
        /\ piano_roll' = IF acts = <<>> THEN piano_roll
                         ELSE UpdateCurveUi(tracks', active_edit_track', clip_sequencer_data)
        /\ UNCHANGED <<master_bpm, vid_sync, bank_data, clip_meta, prep_workers>>
        /\ UNCHANGED <<clip_sequencer_data, seq_running, seq_multiplier,
                       transport_start_time, last_processed_step_global, now, fired, edits>>
        /\ UNCHANGED <<buttons, current_bank, current_generation, bank_store, midi_map>>
        /\ kFrame

\* the note-off (or key-up) that ends a held TRIGGER_k: handle_midi_message
\* matches bindings by message type, and no binding has the type of a release
ReleaseTrigger(k) ==
    /\ last_op' = Op("release_trigger", k, 0)
    /\ UNCHANGED <<master_bpm, vid_sync, bank_data, clip_meta, prep_workers>>
    /\ UNCHANGED seqVars
    /\ kFrame

\* the fade_timer timeout of track k: VJDeck._process_envelope
ProcessEnvelope(k) ==
    /\ UNCHANGED edits
    /\ tracks[k].fade_timer
    /\ last_op' = Op("process_envelope", k, 0)
    /\ tracks' = [tracks EXCEPT ![k] = TrackProcessEnvelope(tracks[k])]
    /\ UNCHANGED <<master_bpm, vid_sync, bank_data, clip_meta, prep_workers,
                   clip_sequencer_data, active_edit_track, piano_roll, seq_running,
                   seq_multiplier, transport_start_time, last_processed_step_global,
                   now, fired>>
    /\ kFrame
    /\ UNCHANGED uiVars

\* LooperApp.set_global_attack with the slider value val
SetGlobalAttack(val) ==
    /\ UNCHANGED edits
    /\ last_op' = Op("set_global_attack", None, val)
    /\ tracks' = [k \in PadKeys |-> [tracks[k] EXCEPT !.attack_ms = Max(1, val)]]
    /\ UNCHANGED <<master_bpm, vid_sync, bank_data, clip_meta, prep_workers,
                   clip_sequencer_data, active_edit_track, piano_roll, seq_running,
                   seq_multiplier, transport_start_time, last_processed_step_global,
                   now, fired>>
    /\ kFrame
    /\ UNCHANGED uiVars

\* LooperApp.set_global_release with the slider value val
SetGlobalRelease(val) ==
    /\ UNCHANGED edits
    /\ last_op' = Op("set_global_release", None, val)
    /\ tracks' = [k \in PadKeys |-> [tracks[k] EXCEPT !.release_ms = Max(1, val)]]
    /\ UNCHANGED <<master_bpm, vid_sync, bank_data, clip_meta, prep_workers,
                   clip_sequencer_data, active_edit_track, piano_roll, seq_running,
                   seq_multiplier, transport_start_time, last_processed_step_global,
                   now, fired>>
    /\ kFrame
    /\ UNCHANGED uiVars

\* a variant that sets the volume of a muted track too
SetTrackVolumeUnguarded(k, val) ==
    /\ UNCHANGED edits
    /\ last_op' = Op("set_track_volume", k, val)
    /\ faders' = [faders EXCEPT ![k] = val]
    /\ UNCHANGED mute_states
    /\ tracks' = [tracks EXCEPT ![k] =
                    ApplyVolume([tracks[k] EXCEPT !.target_volume = Rat(val, 100)])]
    /\ UNCHANGED <<master_bpm, vid_sync, bank_data, clip_meta, prep_workers,
                   clip_sequencer_data, active_edit_track, piano_roll, seq_running,
                   seq_multiplier, transport_start_time, last_processed_step_global,
                   now, fired>>
    /\ kBase
    /\ UNCHANGED uiVars

\* LooperApp.set_track_volume, the slot of the fader's valueChanged (0..100):
\* the fader holds val, the volume follows unless the track is muted
SetTrackVolume(k, val) ==
    /\ UNCHANGED edits
    /\ last_op' = Op("set_track_volume", k, val)
    /\ faders' = [faders EXCEPT ![k] = val]
    /\ UNCHANGED mute_states
    /\ tracks' = IF mute_states[k] THEN tracks
                 ELSE [tracks EXCEPT ![k] =
                          ApplyVolume([tracks[k] EXCEPT !.target_volume = Rat(val, 100)])]
    /\ UNCHANGED <<master_bpm, vid_sync, bank_data, clip_meta, prep_workers,
                   clip_sequencer_data, active_edit_track, piano_roll, seq_running,
                   seq_multiplier, transport_start_time, last_processed_step_global,
                   now, fired>>
    /\ kBase
    /\ UNCHANGED uiVars

\* LooperApp.handle_midi_message, FADER_ branch: a controller value 0..127
\* moves the fader, whose valueChanged fires when the value differs
MidiFader(k, value) ==
    LET val == (value * 100) \div 127
    IN  /\ val # faders[k]
        /\ SetTrackVolume(k, val)

\* LooperApp.toggle_track_mute from the mute button or the MUTE_ key: the
\* state flips, the volume is 0 or the fader's value
ToggleTrackMute(k) ==
    LET muted == ~mute_states[k]
    IN  /\ UNCHANGED edits
        /\ last_op' = Op("toggle_track_mute", k, IF muted THEN 1 ELSE 0)
        /\ mute_states' = [mute_states EXCEPT ![k] = muted]
        /\ UNCHANGED faders
        /\ tracks' = [tracks EXCEPT ![k] =
                        ApplyVolume([tracks[k] EXCEPT !.target_volume =
                                        IF muted THEN Zero ELSE Rat(faders[k], 100)])]
        /\ UNCHANGED <<master_bpm, vid_sync, bank_data, clip_meta, prep_workers,
                   clip_sequencer_data, active_edit_track, piano_roll, seq_running,
                   seq_multiplier, transport_start_time, last_processed_step_global,
                   now, fired>>
        /\ kBase
        /\ UNCHANGED uiVars

\* LooperApp.set_track_filter with the knob value (0..100)
SetTrackFilter(k, val) ==
    /\ UNCHANGED edits
    /\ last_op' = Op("set_track_filter", k, val)
    /\ tracks' = [tracks EXCEPT ![k] = ApplyVolume([tracks[k] EXCEPT !.filter_val = val])]
    /\ UNCHANGED <<master_bpm, vid_sync, bank_data, clip_meta, prep_workers,
                   clip_sequencer_data, active_edit_track, piano_roll, seq_running,
                   seq_multiplier, transport_start_time, last_processed_step_global,
                   now, fired>>
    /\ kFrame
    /\ UNCHANGED uiVars

\* the entry update_active_track_loop / save_curve_data create for a path
DefaultSeqData == [present |-> TRUE, points |-> <<>>, loop_start |-> 0, loop_length |-> 64]
SeqDataOf(path) ==
    IF clip_sequencer_data[path].present THEN clip_sequencer_data[path] ELSE DefaultSeqData

\* PianoRollSequencer.set_loop_window -> LooperApp.update_active_track_loop
SetLoopWindow(start, length) ==
    LET ls == Max(0, Min(start, 64 - length))
        path == tracks[active_edit_track].current_filepath
    IN  /\ edits < MaxEdits
        /\ edits' = edits + 1
        /\ last_op' = Unobserved
        /\ piano_roll' = [piano_roll EXCEPT !.loop_start = ls, !.loop_length = length]
        /\ IF path # None
           THEN clip_sequencer_data' =
                   [clip_sequencer_data EXCEPT ![path] =
                       [SeqDataOf(path) EXCEPT !.loop_start = ls, !.loop_length = length]]
           ELSE UNCHANGED clip_sequencer_data
        /\ UNCHANGED <<master_bpm, vid_sync, bank_data, clip_meta, prep_workers, tracks,
                       active_edit_track, seq_running, seq_multiplier,
                       transport_start_time, last_processed_step_global, now, fired>>
        /\ kFrame
        /\ UNCHANGED uiVars

\* an edit of the piano roll that leaves it holding points -> LooperApp.save_curve_data
PaintPoints(points) ==
    LET path == tracks[active_edit_track].current_filepath
    IN  /\ edits < MaxEdits
        /\ edits' = edits + 1
        /\ last_op' = Unobserved
        /\ piano_roll' = [piano_roll EXCEPT !.points = points]
        /\ IF path # None
           THEN clip_sequencer_data' =
                   [clip_sequencer_data EXCEPT ![path] =
                       [SeqDataOf(path) EXCEPT !.points = points]]
           ELSE UNCHANGED clip_sequencer_data
        /\ UNCHANGED <<master_bpm, vid_sync, bank_data, clip_meta, prep_workers, tracks,
                       active_edit_track, seq_running, seq_multiplier,
                       transport_start_time, last_processed_step_global, now, fired>>
        /\ kFrame
        /\ UNCHANGED uiVars

\* LooperApp.change_edit_track
ChangeEditTrack(k) ==
    /\ UNCHANGED edits
    /\ last_op' = Unobserved
    /\ active_edit_track' = k
    /\ piano_roll' = UpdateCurveUi(tracks, k, clip_sequencer_data)
    /\ UNCHANGED <<master_bpm, vid_sync, bank_data, clip_meta, prep_workers, tracks,
                   clip_sequencer_data, seq_running, seq_multiplier,
                   transport_start_time, last_processed_step_global, now, fired>>
    /\ kFrame
    /\ UNCHANGED uiVars

\* a variant that keeps the clock base and the step counter of the last run
ToggleSequencerNoReset ==
    /\ last_op' = Unobserved
    /\ seq_running' = ~seq_running
    /\ IF ~seq_running
       THEN /\ edits < MaxEdits
            /\ edits' = edits + 1
       ELSE UNCHANGED edits
    /\ UNCHANGED <<transport_start_time, last_processed_step_global>>
    /\ UNCHANGED <<master_bpm, vid_sync, bank_data, clip_meta, prep_workers, tracks,
                   clip_sequencer_data, active_edit_track, piano_roll, seq_multiplier,
                   now, fired>>
    /\ kFrame
    /\ UNCHANGED uiVars

\* LooperApp.toggle_sequencer
ToggleSequencer ==
    /\ last_op' = Unobserved
    /\ seq_running' = ~seq_running
    /\ IF ~seq_running
       THEN /\ edits < MaxEdits
            /\ edits' = edits + 1
            /\ transport_start_time' = now
            /\ last_processed_step_global' = -1
       ELSE UNCHANGED <<edits, transport_start_time, last_processed_step_global>>
    /\ UNCHANGED <<master_bpm, vid_sync, bank_data, clip_meta, prep_workers, tracks,
                   clip_sequencer_data, active_edit_track, piano_roll, seq_multiplier,
                   now, fired>>
    /\ kFrame
    /\ UNCHANGED uiVars

\* LooperApp.change_seq_speed
ChangeSeqSpeed(mult) ==
    /\ UNCHANGED edits
    /\ last_op' = Unobserved
    /\ seq_multiplier' = mult
    /\ UNCHANGED <<master_bpm, vid_sync, bank_data, clip_meta, prep_workers, tracks,
                   clip_sequencer_data, active_edit_track, piano_roll, seq_running,
                   transport_start_time, last_processed_step_global, now, fired>>
    /\ kFrame
    /\ UNCHANGED uiVars

\* LooperApp.handle_tap_tempo (four-track revision), the taps averaging to bpm
TapTempo(bpm) ==
    /\ UNCHANGED edits
    /\ last_op' = Unobserved
    /\ master_bpm' = bpm
    /\ tracks' = IF vid_sync THEN SyncAllTracks(tracks, bpm) ELSE tracks
    /\ UNCHANGED <<vid_sync, bank_data, clip_meta, prep_workers,
                   clip_sequencer_data, active_edit_track, piano_roll, seq_running,
                   seq_multiplier, transport_start_time, last_processed_step_global,
                   now, fired>>
    /\ kFrame
    /\ UNCHANGED uiVars

\* LooperApp.toggle_vid_sync (four-track revision)
ToggleTrackSync ==
    /\ UNCHANGED edits
    /\ last_op' = Unobserved
    /\ vid_sync' = ~vid_sync
    /\ tracks' = IF ~vid_sync
                 THEN SyncAllTracks(tracks, master_bpm)
                 ELSE [k \in PadKeys |-> TrackSetPlaybackRate(tracks[k], One)]
    /\ UNCHANGED <<master_bpm, bank_data, clip_meta, prep_workers,
                   clip_sequencer_data, active_edit_track, piano_roll, seq_running,
                   seq_multiplier, transport_start_time, last_processed_step_global,
                   now, fired>>
    /\ kFrame
    /\ UNCHANGED uiVars

\* the wall clock moves on by dt ms
AdvanceClock(dt) ==
    /\ UNCHANGED edits
    /\ now + dt <= MaxNow
    /\ last_op' = Unobserved
    /\ now' = now + dt
    /\ UNCHANGED <<master_bpm, vid_sync, bank_data, clip_meta, prep_workers, tracks,
                   clip_sequencer_data, active_edit_track, piano_roll, seq_running,
                   seq_multiplier, transport_start_time, last_processed_step_global, fired>>
    /\ kFrame
    /\ UNCHANGED uiVars

\* the seq_timer timeout: LooperApp.run_sequencer_step
RunSequencerStep ==
    /\ UNCHANGED edits
    /\ seq_running
    /\ LET r == IF master_bpm <= 0
                THEN [tracks |-> tracks, last |-> last_processed_step_global,
                      fired |-> <<>>, steps |-> 0]
                ELSE SeqAdvance(tracks, clip_sequencer_data, last_processed_step_global,
                                TotalSteps(now, transport_start_time, master_bpm,
                                           seq_multiplier))
       IN  /\ last_op' = Op("run_sequencer_step", None, r.steps)
           /\ tracks' = r.tracks
           /\ last_processed_step_global' = r.last
           /\ fired' = r.fired
    /\ UNCHANGED <<master_bpm, vid_sync, bank_data, clip_meta, prep_workers,
                   clip_sequencer_data, active_edit_track, piano_roll, seq_running,
                   seq_multiplier, transport_start_time, now>>
    /\ kFrame
    /\ UNCHANGED uiVars

\* run_sequencer_step reached by a timeout while seq_running is False: it returns
TimeoutWhileStopped ==
    /\ ~seq_running
    /\ last_op' = Op("run_sequencer_step", None, 0)
    /\ fired' = <<>>
    /\ UNCHANGED <<master_bpm, vid_sync, bank_data, clip_meta, prep_workers, tracks,
                   clip_sequencer_data, active_edit_track, piano_roll, seq_running,
                   seq_multiplier, transport_start_time, last_processed_step_global,
                   now, edits>>
    /\ kFrame
    /\ UNCHANGED uiVars

\* the decks and pads the performer uses in the runs explored
UsedDecks == {"A"}
UsedPads == {"a"}

SyncNext ==
    \/ \E k \in UsedPads, p \in Paths : AssignClipToBank(k, p)
    \/ \E d \in UsedDecks, k \in UsedPads : AssignToDeck(d, k)
    \/ \E w \in prep_workers, ok \in BOOLEAN : OnPrepDone(w, ok)
    \/ ToggleVidSync
    \/ \E b \in TapBPMs : HandleTapTempo(b)
    \/ \E w \in rb_workers : OnRubberbandDone(w)
    \/ \E w \in rb_workers : RubberbandFail(w)
    \/ \E d \in UsedDecks, p \in Positions : DeckTrigger(d, p)
    \/ \E d \in UsedDecks, p \in Positions : DeckSeek(d, p)

vars == <<syncVars, seqVars, roundTrip, session, extraVars, last_op>>

\* the tracks the performer loads in the runs explored
UsedTracks == {"a", "s"}

Two == [n |-> 2, d |-> 1]

\* step patterns the performer paints: two entries, and every step of the roll
PatternChoices ==
    { [st \in {0, 2} |-> IF st = 0 THEN Zero ELSE Half],
      [st \in 0..63 |-> Zero] }

\* loop windows the performer sets: <<start, length>>
WindowChoices == { <<0, 4>>, <<2, 4>> }

\* wall-clock advances between two events, ms
ClockSteps == {500, 2000}

\* master tempi a tap sequence can produce (this revision keeps taps of any spacing)
TrackTapBPMs == {0, 600, 1200}

\* sequencer speeds of the RATE combo box
SpeedChoices == {Half, One, Two}

\* the step clock under tempo, speed and wall-clock changes
ClockNext ==
    \/ ToggleSequencer
    \/ \E m \in SpeedChoices : ChangeSeqSpeed(m)
    \/ \E b \in TrackTapBPMs : TapTempo(b)
    \/ \E dt \in ClockSteps : AdvanceClock(dt)
    \/ RunSequencerStep

\* the step clock driving the clips' patterns at a steady tempo
SeqNext ==
    \/ \E k \in UsedTracks, p \in {"p1"} : LoadTrack(k, p)
    \/ \E w \in prep_workers, ok \in {TRUE} : PrepDone(w, ok)
    \/ \E pts \in PatternChoices : PaintPoints(pts)
    \/ \E w \in WindowChoices : SetLoopWindow(w[1], w[2])
    \/ ToggleSequencer
    \/ \E dt \in ClockSteps : AdvanceClock(dt)
    \/ RunSequencerStep

\* envelope slider values: the minimum 0 and two ramps
AttackChoices == {0, 10, 20}
ReleaseChoices == {0, 10}

\* the envelope under loads, pad triggers, timer ticks and slider moves
EnvNext ==
    \/ \E k \in UsedPads, p \in Paths : LoadTrack(k, p)
    \/ \E w \in prep_workers, ok \in BOOLEAN : PrepDone(w, ok)
    \/ \E k \in UsedPads : MidiTrigger(k)
    \/ \E k \in UsedPads : ReleaseTrigger(k)
    \/ \E k \in UsedPads : ProcessEnvelope(k)
    \/ \E v \in AttackChoices : SetGlobalAttack(v)
    \/ \E v \in ReleaseChoices : SetGlobalRelease(v)
    \/ \E k \in UsedTracks : ChangeEditTrack(k)
    \/ ToggleTrackSync

NoRoundTrip == [pos |-> 0, rate |-> One, mapped |-> -1]

Init == SyncInit /\ SeqInit /\ roundTrip = NoRoundTrip /\ session = NewSession("o") /\ ExtraInit

SpecSync == Init /\ [][SyncNext]_vars

SpecSeq == Init /\ [][SeqNext]_vars

SpecClock == Init /\ [][ClockNext]_vars

SpecEnv == Init /\ [][EnvNext]_vars

-----------------------------------------------------------------------------
(* One clip with the pattern {0: 0.0, 16: 0.5} in a 32-step window, the     *)
(* sequencer just started at t = 0                                          *)

ScenarioPattern == [st \in {0, 16} |-> IF st = 0 THEN Zero ELSE Half]

\* track a after load_track("a", "p1") and its prep_done
ScenarioTrack ==
    TrackLoadStems([TrackTrigger([TrackInit EXCEPT !.current_filepath = "p1"], 0)
                       EXCEPT !.raw_samples = "p1", !.sample_rate = SampleRateOf["p1"]])

ScenarioInit ==
    /\ master_bpm = 1200
    /\ vid_sync = TRUE
    /\ bank_data = [k \in PadKeys |-> IF k = "a" THEN "p1" ELSE None]
    /\ active_clip = [d \in Decks |-> None]
    /\ clip_meta = [p \in Paths |-> IF p = "p1" THEN TempoOf[p] ELSE NoTempo]
    /\ crossfader_value = Zero
    /\ deck = UpdateMixer([d \in Decks |-> DeckInit], Zero)
    /\ prep_workers = {}
    /\ rb_workers = {}
    /\ rateGen = [d \in Decks |-> 0]
    /\ appliedGen = [d \in Decks |-> 0]
    /\ last_op = Unobserved
    /\ tracks = [k \in PadKeys |-> IF k = "a" THEN ScenarioTrack ELSE TrackInit]
    /\ clip_sequencer_data =
          [p \in Paths |-> IF p = "p1"
                           THEN [present |-> TRUE, points |-> ScenarioPattern,
                                 loop_start |-> 0, loop_length |-> 32]
                           ELSE NoSeqData]
    /\ active_edit_track = "a"
    /\ piano_roll = [points |-> ScenarioPattern, loop_start |-> 0, loop_length |-> 32]
    /\ seq_running = TRUE
    /\ seq_multiplier = One
    /\ transport_start_time = 0
    /\ last_processed_step_global = -1
    /\ now = 0
    /\ fired = <<>>
    /\ edits = MaxEdits
    /\ UiInit
    /\ roundTrip = NoRoundTrip
    /\ session = NewSession("o") /\ ExtraInit

\* wall-clock advances between two seq_timer timeouts, ms
ScenarioClockSteps == {25, 100}

ScenarioNext ==
    \/ \E dt \in ScenarioClockSteps : AdvanceClock(dt)
    \/ RunSequencerStep

SpecScenario == ScenarioInit /\ [][ScenarioNext]_vars

-----------------------------------------------------------------------------
(* The position mapping of the rendition swap as a function of its inputs *)

RoundTripPositions == (0..MaxPos) \cup Positions

\* the ratios sync_deck_speed computes from the tap tempi and the clip tempi
RoundTripRates == {SyncRate(c, m) : c \in {1000, 1200}, m \in TapBPMs}

RoundTripInit ==
    /\ SyncInit
    /\ SeqInit
    /\ roundTrip \in [pos : RoundTripPositions, rate : RoundTripRates, mapped : {-1}]
    /\ session = NewSession("o") /\ ExtraInit

\* a deck at video position pos and rate ratio whose rendition has just arrived
RoundTripDeck ==
    [DeckInit EXCEPT !.current_filepath = "p1", !.base_wav_path = "p1",
                     !.playback_rate = roundTrip.rate, !.video_pos = roundTrip.pos,
                     !.audio_source = "base", !.audio_rate = roundTrip.rate,
                     !.audio_pos = roundTrip.pos]

\* VJDeck.switch_audio_source(new, reset_rate_to_video=False) maps the position
SwapAtPosition ==
    /\ roundTrip.mapped = -1
    /\ roundTrip' = [roundTrip EXCEPT !.mapped =
          SwitchAudioSource(RoundTripDeck, "stretch", roundTrip.rate, 1, FALSE).audio_pos]
    /\ UNCHANGED <<syncVars, seqVars, last_op, session, extraVars>>

\* VJDeck.seek(pos) on the deck once the rendition is active maps the position
SeekAtPosition ==
    /\ roundTrip.mapped = -1
    /\ roundTrip' = [roundTrip EXCEPT !.mapped =
          DeckSetPosition(SwitchAudioSource(RoundTripDeck, "stretch", roundTrip.rate,
                                            1, FALSE),
                          roundTrip.pos).audio_pos]
    /\ UNCHANGED <<syncVars, seqVars, last_op, session, extraVars>>

RoundTripNext == SwapAtPosition \/ SeekAtPosition

SpecRoundTrip == RoundTripInit /\ [][RoundTripNext]_vars

-----------------------------------------------------------------------------
(* The two-deck mixer: crossfader, trigger fade-in *)

\* crossfader slider positions (the slider runs 0..100)
FaderValues == {0, 50, 100}

MixNext ==
    \/ \E k \in UsedPads, p \in {"p1"} : AssignClipToBank(k, p)
    \/ \E d \in UsedDecks, k \in UsedPads : AssignToDeck(d, k)
    \/ \E w \in prep_workers, ok \in {TRUE} : OnPrepDone(w, ok)
    \/ \E v \in FaderValues : OnFaderUiChanged(v)
    \/ \E d \in UsedDecks, p \in Positions : DeckTrigger(d, p)
    \/ \E d \in UsedDecks : ProcessFade(d)

SpecMix == Init /\ [][MixNext]_vars

-----------------------------------------------------------------------------
(* The four-track mixer: volume fader, filter knob, trigger, envelope *)

\* positions of a track's volume fader and of its filter knob
VolumeChoices == {0, 50, 100}
FilterChoices == {0, 50, 100}

GainNext ==
    \/ \E k \in UsedPads, p \in {"p1"} : LoadTrack(k, p)
    \/ \E w \in prep_workers, ok \in BOOLEAN : PrepDone(w, ok)
    \/ \E k \in UsedPads : MidiTrigger(k)
    \/ \E k \in UsedPads : ProcessEnvelope(k)
    \/ \E k \in UsedPads, v \in VolumeChoices : SetTrackVolume(k, v)
    \/ \E k \in UsedPads, v \in FilterChoices : SetTrackFilter(k, v)

SpecGain == Init /\ [][GainNext]_vars

-----------------------------------------------------------------------------
(* Banks: loads, analysis results and bank switches of the four-track        *)
(* revision.                                                                   *)

BankNext ==
    \/ \E k \in UsedPads, p \in Paths : LoadTrack(k, p)
    \/ \E w \in prep_workers, ok \in BOOLEAN : PrepDone(w, ok)
    \/ \E i \in Banks : SwitchBank(i)

SpecBank == Init /\ [][BankNext]_vars

-----------------------------------------------------------------------------
(* MIDI: bindings learned in the config dialog and the messages matched       *)
(* against them.                                                               *)

MidiNext ==
    \/ \E k \in UsedPads : LoadTrack(k, "p1")
    \/ \E w \in prep_workers, ok \in {TRUE} : PrepDone(w, ok)
    \/ \E a \in {"TRIGGER_A", "TRIGGER_S"}, n \in MidiNotes : LearnBinding(a, n)
    \/ \E n \in MidiNotes : HandleMidiMessage(n)
    \/ \E k \in UsedTracks : ProcessEnvelope(k)

SpecMidi == Init /\ [][MidiNext]_vars

-----------------------------------------------------------------------------
(* Sessions: edits of the dictionaries, save_set and load_set.                *)

\* LooperApp.load_track / assign_clip_to_bank while bank b is current
SessionAssign(b, path) ==
    /\ last_op' = Op("session_assign", None, b)
    /\ session' = IF IntKey(b) \in DOMAIN session.bank_data
                  THEN [session EXCEPT !.bank_data = Put(@, IntKey(b), path), !.error = ""]
                  ELSE [session EXCEPT !.error = "KeyError"]
    /\ UNCHANGED <<syncVars, seqVars, roundTrip, extraVars>>

\* LooperApp.save_curve_data / the pattern editor: an entry at an int step
SessionPaint(step) ==
    /\ last_op' = Op("session_paint", None, step)
    /\ session' = [session EXCEPT !.points = Put(@, IntKey(step), 1), !.error = ""]
    /\ UNCHANGED <<syncVars, seqVars, roundTrip, extraVars>>

\* LooperApp.handle_hotcue (vidz-k): cue num is stored at the deck position
SessionSetCue(num, pos) ==
    /\ session.rev = "k"
    /\ last_op' = Op("session_set_cue", None, num)
    /\ session' = [session EXCEPT !.hotcues = Put(@, IntKey(num), pos), !.error = ""]
    /\ UNCHANGED <<syncVars, seqVars, roundTrip, extraVars>>

\* LooperApp.save_set
SaveSet ==
    /\ last_op' = Op("save_set", session.rev, 0)
    /\ session' = SaveSetOf(session)
    /\ UNCHANGED <<syncVars, seqVars, roundTrip, extraVars>>

\* LooperApp.load_set: id 0 is the file save_set wrote, 1 and 2 are foreign
LoadSet(id) ==
    LET f == IF id = 0 THEN session.file ELSE ForeignFile(id)
    IN  /\ f.written
        /\ last_op' = Op("load_set", session.rev, id)
        /\ session' = IF session.rev = "o" THEN LoadSetO(session, f)
                      ELSE LoadSetK(session, f)
        /\ UNCHANGED <<syncVars, seqVars, roundTrip, extraVars>>

SessionInit ==
    /\ SyncInit
    /\ SeqInit
    /\ roundTrip = NoRoundTrip
    /\ session \in {NewSession(r) : r \in {"o", "k"}}
    /\ ExtraInit

SessionNext ==
    \/ \E b \in SessionBanks : SessionAssign(b, "p1")
    \/ \E st \in SessionSteps : SessionPaint(st)
    \/ \E n \in CueNumbers : SessionSetCue(n, 500)
    \/ SaveSet
    \/ \E id \in {0, 1, 2} : LoadSet(id)

SpecSession == SessionInit /\ [][SessionNext]_vars

-----------------------------------------------------------------------------
(* Ticks: two tracks hold a clip with an entry on every step, the sequencer   *)
(* was started at t = 0, and the timer fires after stalls of any length.      *)

\* the pattern with an entry on every step of the roll
DensePattern == [st \in 0..63 |-> Zero]

\* two loaded tracks, the dense pattern, the sequencer running since t = 0
LoadedAndRunning ==
    /\ master_bpm = 1200
    /\ vid_sync = TRUE
    /\ bank_data = [k \in PadKeys |-> IF k \in UsedTracks THEN "p1" ELSE None]
    /\ active_clip = [d \in Decks |-> None]
    /\ clip_meta = [p \in Paths |-> IF p = "p1" THEN TempoOf[p] ELSE NoTempo]
    /\ crossfader_value = Zero
    /\ deck = UpdateMixer([d \in Decks |-> DeckInit], Zero)
    /\ prep_workers = {}
    /\ rb_workers = {}
    /\ rateGen = [d \in Decks |-> 0]
    /\ appliedGen = [d \in Decks |-> 0]
    /\ last_op = Unobserved
    /\ tracks = [k \in PadKeys |-> IF k \in UsedTracks THEN ScenarioTrack ELSE TrackInit]
    /\ clip_sequencer_data =
          [p \in Paths |-> IF p = "p1"
                           THEN [present |-> TRUE, points |-> DensePattern,
                                 loop_start |-> 0, loop_length |-> 64]
                           ELSE NoSeqData]
    /\ active_edit_track = "a"
    /\ piano_roll = [points |-> DensePattern, loop_start |-> 0, loop_length |-> 64]
    /\ seq_running = TRUE
    /\ seq_multiplier = One
    /\ transport_start_time = 0
    /\ last_processed_step_global = -1
    /\ now = 0
    /\ fired = <<>>
    /\ UiInit
    /\ roundTrip = NoRoundTrip
    /\ session = NewSession("o") /\ ExtraInit

TickInit == LoadedAndRunning /\ edits = MaxEdits

\* wall-clock advances between two seq_timer timeouts, ms: one step, four
\* steps, and a stall of seventeen steps at 120 BPM
TickClockSteps == {125, 500, 2125}

TickNext ==
    \/ \E dt \in TickClockSteps : AdvanceClock(dt)
    \/ RunSequencerStep

SpecTick == TickInit /\ [][TickNext]_vars

-----------------------------------------------------------------------------
(* Windows: the loop window of the running clip is moved and shrunk and its   *)
(* pattern repainted while the step clock advances.                           *)

\* two edits of window or pattern remain within the edit budget
WindowInit == LoadedAndRunning /\ edits = MaxEdits - 2

\* wall-clock advances between two seq_timer timeouts, ms: one and four steps
WindowClockSteps == {125, 500}

WindowNext ==
    \/ \E pts \in PatternChoices : PaintPoints(pts)
    \/ \E w \in WindowChoices : SetLoopWindow(w[1], w[2])
    \/ \E dt \in WindowClockSteps : AdvanceClock(dt)
    \/ RunSequencerStep

SpecWindow == WindowInit /\ [][WindowNext]_vars

-----------------------------------------------------------------------------
(* Pulses: the step clock triggers the running clips while their envelope     *)
(* timers tick.                                                               *)

PulseInit == LoadedAndRunning /\ edits = MaxEdits

\* the track whose envelope timer is followed
PulseTracks == {"a"}

\* wall-clock advance between two seq_timer timeouts, ms: one step
PulseClockSteps == {125}

PulseNext ==
    \/ \E dt \in PulseClockSteps : AdvanceClock(dt)
    \/ RunSequencerStep
    \/ \E k \in PulseTracks : ProcessEnvelope(k)

SpecPulse == PulseInit /\ [][PulseNext]_vars

-----------------------------------------------------------------------------
(* Zero crossings: the two revisions' searches asked for positions in, at     *)
(* the end of and beyond the decoded samples.                                 *)

\* requested positions, ms: a fine sweep at the start of the clip, then the
\* end of the short clip, the end of the analysed minute and beyond
CrossingTargets ==
    {7 * i : i \in 0..40} \cup {7980, 7995, 8000, 8015, 8030, 59990, 60010, 60030, 75000}

\* clip lengths, ms: p1 and a clip longer than the analysed minute
CrossingDurations == {DurationOf["p1"], 90000}

\* VJDeck.find_zero_crossing(target_ms) of a track holding p1's samples, or none
AskTrack(loaded, target_ms) ==
    LET t == IF loaded
             THEN [TrackInit EXCEPT !.raw_samples = "p1", !.sample_rate = SampleRateOf["p1"]]
             ELSE TrackInit
    IN  /\ crossing' = [rev |-> "o", loaded |-> loaded, dur |-> DurationOf["p1"],
                        target_ms |-> target_ms, result |-> FindZeroCrossing(t, target_ms)]
        /\ last_op' = Op("find_zero_crossing", None, target_ms)
        /\ UNCHANGED <<syncVars, seqVars, roundTrip, session, mixerVars, jdeck, ramp>>

\* LooperApp.find_nearest_zero_crossing(path, target_ms)
AskApp(loaded, dur, target_ms) ==
    /\ crossing' = [rev |-> "j", loaded |-> loaded, dur |-> dur, target_ms |-> target_ms,
                    result |-> FindNearestZeroCrossing(loaded, dur, target_ms)]
    /\ last_op' = Op("find_nearest_zero_crossing", None, target_ms)
    /\ UNCHANGED <<syncVars, seqVars, roundTrip, session, mixerVars, jdeck, ramp>>

CrossingNext ==
    \/ \E l \in BOOLEAN, t \in CrossingTargets : AskTrack(l, t)
    \/ \E l \in BOOLEAN, d \in CrossingDurations, t \in CrossingTargets : AskApp(l, d, t)

SpecCrossing == Init /\ [][CrossingNext]_vars

-----------------------------------------------------------------------------
(* Transport: the running sequencer is stopped and started again while the    *)
(* wall clock advances and timeouts arrive.                                   *)

\* one start remains within the edit budget
TransportInit == LoadedAndRunning /\ edits = MaxEdits - 1

\* wall-clock advance between two events, ms: four steps
TransportClockSteps == {500}

TransportNext ==
    \/ ToggleSequencer
    \/ \E dt \in TransportClockSteps : AdvanceClock(dt)
    \/ RunSequencerStep
    \/ TimeoutWhileStopped

SpecTransport == TransportInit /\ [][TransportNext]_vars

-----------------------------------------------------------------------------
(* Attack: the attack slider is set, the deck is triggered once and the      *)
(* envelope timer ticks, the level being a Python float.                      *)

\* positions of the attack slider (0..200)
AttackSlider == {0, 1, 4, 10, 30, 35, 50, 64, 100, 200}

\* ticks ceil(attack_ms / 5) an attack takes in exact arithmetic
AttackTicks(attack_ms) == (attack_ms + 4) \div 5

\* set_global_attack(val), then VJDeck.trigger: ATTACK from level 0.0
RampTrigger(val) ==
    /\ ramp.envelope_state = "IDLE"
    /\ ramp' = [attack_ms |-> Max(1, val), envelope_state |-> "ATTACK",
                fade_level |-> FZero, ticks |-> 0]
    /\ last_op' = Op("trigger", None, val)
    /\ UNCHANGED <<syncVars, seqVars, roundTrip, session, mixerVars, crossing, jdeck>>

\* variant: the step computed for twice the attack time
RampTickSlow ==
    /\ ramp.envelope_state = "ATTACK"
    /\ \E step \in {FDiv5(2 * ramp.attack_ms)} : \E l \in {FAdd(ramp.fade_level, step)} :
         ramp' = IF FGeqOne(l)
                 THEN [ramp EXCEPT !.fade_level = FOne, !.envelope_state = "SUSTAIN",
                                   !.ticks = @ + 1]
                 ELSE [ramp EXCEPT !.fade_level = l, !.ticks = @ + 1]
    /\ last_op' = Op("process_envelope", None, 0)
    /\ UNCHANGED <<syncVars, seqVars, roundTrip, session, mixerVars, crossing, jdeck>>

\* VJDeck._process_envelope in ATTACK: fade_level += 5.0 / attack_ms
RampTick ==
    /\ ramp.envelope_state = "ATTACK"
    /\ \E step \in {FDiv5(ramp.attack_ms)} : \E l \in {FAdd(ramp.fade_level, step)} :
         ramp' = IF FGeqOne(l)
                 THEN [ramp EXCEPT !.fade_level = FOne, !.envelope_state = "SUSTAIN",
                                   !.ticks = @ + 1]
                 ELSE [ramp EXCEPT !.fade_level = l, !.ticks = @ + 1]
    /\ last_op' = Op("process_envelope", None, 0)
    /\ UNCHANGED <<syncVars, seqVars, roundTrip, session, mixerVars, crossing, jdeck>>

AttackNext ==
    \/ \E v \in AttackSlider : RampTrigger(v)
    \/ RampTick

SpecAttack == Init /\ [][AttackNext]_vars

\* the envelope timer keeps firing while it is active
SpecAttackFair == SpecAttack /\ WF_vars(RampTick)

-----------------------------------------------------------------------------
(* Mute: fader moves from the UI and from MIDI, and mute toggles.           *)

MutePads == {"a", "s"}
MidiValues == {0, 32, 127}

MuteNext ==
    \/ \E k \in MutePads, v \in VolumeChoices : SetTrackVolume(k, v)
    \/ \E k \in MutePads, v \in MidiValues : MidiFader(k, v)
    \/ \E k \in MutePads : ToggleTrackMute(k)

SpecMute == Init /\ [][MuteNext]_vars

-----------------------------------------------------------------------------
(* The RAM-loop deck: one deck with a video loaded, its main audio output   *)
(* and its loop player.                                                      *)

\* loop bounds in ms as set_manual_loop passes them on, after the snap to a
\* quiet sample
LoopStarts == {0, 500, 1000}
LoopEnds == {15, 510, 1020, 1500}

RamFrame == UNCHANGED <<syncVars, seqVars, roundTrip, session, mixerVars, crossing, ramp>>

\* RamLoopPlayer.stop
RamStop(dk) == [dk EXCEPT !.loop_timer = 0, !.is_playing = FALSE]

\* RamLoopPlayer.start_loop: nothing without audio data or for a loop of
\* 20 ms or less, else the loop restarts with the timer at its duration
StartLoop(dk, start_ms, end_ms) ==
    IF ~dk.audio_data THEN dk
    ELSE IF end_ms - start_ms <= 20 THEN dk
    ELSE [RamStop(dk) EXCEPT !.loop_timer = end_ms - start_ms, !.is_playing = TRUE]

\* VJDeck.set_raw_audio with the decoded audio of the clip
SetRawAudio ==
    /\ ~jdeck.audio_data
    /\ jdeck' = [jdeck EXCEPT !.audio_data = TRUE]
    /\ last_op' = Op("set_raw_audio", None, 0)
    /\ RamFrame

\* LooperApp.set_manual_loop -> VJDeck.start_ram_loop: the main output is
\* muted, the loop player asked to start, the video sought and started
StartRamLoop(start_ms, end_ms) ==
    /\ jdeck' = [StartLoop([jdeck EXCEPT !.loop_start_ms = start_ms, !.muted = TRUE],
                           start_ms, end_ms)
                    EXCEPT !.video_pos = start_ms, !.playing = TRUE]
    /\ last_op' = Op("start_ram_loop", None, end_ms - start_ms)
    /\ RamFrame

\* LooperApp.clear_manual_loop -> VJDeck.stop_ram_loop
StopRamLoop ==
    /\ jdeck' = [RamStop(jdeck) EXCEPT !.muted = FALSE]
    /\ last_op' = Op("stop_ram_loop", None, 0)
    /\ RamFrame

\* VJDeck.play
DeckPlay ==
    /\ jdeck' = [RamStop(jdeck) EXCEPT !.muted = FALSE, !.playing = TRUE]
    /\ last_op' = Op("play", None, 0)
    /\ RamFrame

\* VJDeck.stop: the video and the loop player stop, the output is left as is
DeckStop ==
    /\ jdeck' = [RamStop(jdeck) EXCEPT !.playing = FALSE, !.video_pos = 0]
    /\ last_op' = Op("stop", None, 0)
    /\ RamFrame

\* RamLoopPlayer.restart_loop on the loop timer -> VJDeck.on_audio_loop_restart
RestartLoop ==
    /\ jdeck.is_playing
    /\ jdeck' = [jdeck EXCEPT !.video_pos = jdeck.loop_start_ms]
    /\ last_op' = Op("restart_loop", None, 0)
    /\ RamFrame

RamNext ==
    \/ SetRawAudio
    \/ \E a \in LoopStarts, b \in LoopEnds : StartRamLoop(a, b)
    \/ StopRamLoop
    \/ DeckPlay
    \/ DeckStop
    \/ RestartLoop

SpecRam == Init /\ [][RamNext]_vars

-----------------------------------------------------------------------------
(* Properties *)

\* C1 (as stated): a rendition that completes after a newer rate change was
\* issued for its deck (a sync with another ratio, or sync switched off) is
\* discarded: its completion leaves the deck's audio source, audio rate and
\* audio position unchanged.
C1_StaleRenditionDiscarded ==
    [][\A d \in Decks :
          (/\ last_op'.op = "on_rubberband_done"
           /\ last_op'.who = d
           /\ last_op'.arg < rateGen[d]
           /\ (deck[d].playback_rate # deck'[d].source_ratio \/ ~vid_sync))
          => /\ deck'[d].audio_source = deck[d].audio_source
             /\ deck'[d].audio_rate = deck[d].audio_rate
             /\ deck'[d].audio_pos = deck[d].audio_pos]_vars

\* C2 (as stated): on each deck the request generations of the renditions
\* swapped in never decrease, whatever order the results arrive in.
C2_AppliedGenerationsMonotonic ==
    [][\A d \in Decks : appliedGen'[d] >= appliedGen[d]]_vars

\* C3: during one sequencer run last_processed_step_global never decreases
\* from one scheduler tick to the next, whatever the wall clock, the tempo and
\* the multiplier do between the ticks.
C3_LastProcessedStepMonotonic ==
    [][(seq_running /\ seq_running')
          => last_processed_step_global' >= last_processed_step_global]_vars

\* C3 witness: a tick has run while the elapsed time implied fewer steps than
\* were already processed, after more than a clamp's worth of steps
C3_TickBehindLastStep ==
    /\ last_op.op = "run_sequencer_step"
    /\ seq_running
    /\ master_bpm > 0
    /\ last_processed_step_global > CatchUpClamp
    /\ TotalSteps(now, transport_start_time, master_bpm, seq_multiplier)
          < last_processed_step_global

\* C4 (as stated): one scheduler tick fires at most CatchUpClamp (16) triggers,
\* for any number of tracks whose clips hold pattern entries.
C4_TriggersPerTickBounded ==
    last_op.op = "run_sequencer_step" => Len(fired) <= CatchUpClamp

\* C5: every track's envelope level lies in [0, 1] and its attack and release
\* times are at least 1 ms (a slider value of 0 is stored as 1), in every
\* reachable state.
C5_EnvelopeBounds ==
    \A k \in PadKeys :
        /\ tracks[k].fade_level.d > 0
        /\ RatLeq(Zero, tracks[k].fade_level)
        /\ RatLeq(tracks[k].fade_level, One)
        /\ tracks[k].attack_ms >= 1
        /\ tracks[k].release_ms >= 1

\* C5 witness: the attack slider was set to 0, a trigger restarted the
\* envelope and one timer tick took it to the full level
C5_ZeroAttackReachesSustain ==
    /\ last_op.op = "process_envelope"
    /\ tracks[last_op.who].attack_ms = 1
    /\ tracks[last_op.who].envelope_state = "SUSTAIN"
    /\ tracks[last_op.who].fade_level = One

\* C6 (as stated): a sync sets the deck's rate to master / clip tempo, and to
\* exactly 1 when the master tempo is <= 0, the clip tempo is <= 0 or no tempo
\* is known for the clip.
C6_SyncRatio ==
    [][\A d \in Decks :
          (rateGen'[d] > rateGen[d] /\ vid_sync' /\ SyncPath(d) # None)
          => LET tempo == clip_meta[SyncPath(d)]
             IN  deck'[d].playback_rate =
                    IF master_bpm' <= 0 \/ tempo = NoTempo \/ tempo <= 0
                    THEN One
                    ELSE Rat(master_bpm', tempo)]_vars

\* C7: after trigger(p) or seek(p) the video position is p; the audio position
\* is p while the deck plays its base audio and floor(p / ratio) while a
\* rendition is active, ratio being the deck's playback rate; at ratio 6/5
\* and p = 5000 that is 5000 before the swap and 4166 after it.
C7_TriggerSeekMapping ==
    \A d \in Decks :
        (last_op.op \in {"trigger", "seek"} /\ last_op.who = d)
        => /\ deck[d].video_pos = last_op.arg
           /\ deck[d].audio_source = "base" => deck[d].audio_pos = last_op.arg
           /\ deck[d].audio_source = "stretch"
                 => deck[d].audio_pos =
                       (last_op.arg * deck[d].playback_rate.d)
                          \div deck[d].playback_rate.n
           /\ (deck[d].playback_rate = Rat(6, 5) /\ last_op.arg = 5000)
                 => /\ deck[d].audio_source = "base" => deck[d].audio_pos = 5000
                    /\ deck[d].audio_source = "stretch" => deck[d].audio_pos = 4166

\* C7 witness: a trigger at 5000 ms on a deck synced at 6/5 whose rendition is
\* active landed the audio on 4166 ms
C7_TriggerOnRendition ==
    \E d \in Decks :
        /\ last_op = Op("trigger", d, 5000)
        /\ deck[d].audio_source = "stretch"
        /\ deck[d].playback_rate = Rat(6, 5)
        /\ deck[d].audio_pos = 4166

C9_ScenarioFiring ==
    [][last_op'.op = "run_sequencer_step"
          => /\ last_processed_step_global = -1
                   => Cardinality({i \in 1..Len(fired') : fired'[i].step = 0}) = 1
             /\ \A i \in 1..Len(fired') :
                   /\ fired'[i].step = 0 => last_processed_step_global = -1
                   /\ fired'[i].step = 16 => now - transport_start_time >= 2000
             /\ (/\ last_processed_step_global \in 0..15
                 /\ TotalSteps(now, transport_start_time, master_bpm, seq_multiplier) \in 16..31)
                   => \E i \in 1..Len(fired') : fired'[i].step = 16]_vars

\* C10 (as stated): whenever a tick fires a clip's pattern entry at step s
\* while processing global step g, s = loop_start + (g mod loop_length).
C10_StepMatchesGlobalStep ==
    last_op.op = "run_sequencer_step"
    => \A i \in 1..Len(fired) :
          LET sd == clip_sequencer_data[tracks[fired[i].key].current_filepath]
          IN  fired[i].step = sd.loop_start + (fired[i].g % sd.loop_length)

\* C11: after the crossfader is set to x, deck A's volume and opacity are
\* 1 - x and deck B's are x; x = 0 gives 1 / 0, x = 1 gives 0 / 1 and x = 1/2
\* gives both decks one half.
C11_CrossfadeLinear ==
    last_op.op = "on_fader_ui_changed"
    => LET x == Rat(last_op.arg, 100)
       IN  /\ crossfader_value = x
           /\ deck["A"].target_volume = RatSub(One, x)
           /\ deck["B"].target_volume = x
           /\ deck["A"].opacity = RatSub(One, x)
           /\ deck["B"].opacity = x
           /\ RatAdd(deck["A"].target_volume, deck["B"].target_volume) = One
           /\ last_op.arg = 0
                 => deck["A"].target_volume = One /\ deck["B"].target_volume = Zero
           /\ last_op.arg = 100
                 => deck["A"].target_volume = Zero /\ deck["B"].target_volume = One
           /\ last_op.arg = 50
                 => deck["A"].target_volume = Half /\ deck["B"].target_volume = Half

\* C11 witness: the crossfader was moved to the middle while deck A was
\* fading in after a trigger, and both decks are at half volume
C11_HalfwayDuringFade ==
    /\ last_op = Op("on_fader_ui_changed", None, 50)
    /\ deck["A"].fade_timer
    /\ deck["A"].target_volume = Half
    /\ deck["B"].target_volume = Half

\* C12 (as stated): after a volume change, a filter change, a trigger or an
\* envelope tick the track's applied audio gain (that of the band the filter
\* leaves open) and its video opacity are equal, and both equal
\* target_volume x fade_level.
C12_GainEqualsOpacity ==
    \A k \in PadKeys :
        (/\ last_op.op \in {"set_track_volume", "set_track_filter",
                            "midi_trigger", "process_envelope"}
         /\ last_op.who = k)
        => LET gain == IF RatLeq(tracks[k].gain_bass, tracks[k].gain_treble)
                       THEN tracks[k].gain_treble ELSE tracks[k].gain_bass
           IN  /\ gain = tracks[k].opacity
               /\ tracks[k].opacity =
                     RatMul(tracks[k].target_volume, tracks[k].fade_level)

\* C13 (as stated): releasing a held trigger while the track's envelope is in
\* ATTACK or SUSTAIN moves the envelope to RELEASE.
C13_ReleaseEntersRelease ==
    [][\A k \in PadKeys :
          (/\ last_op'.op = "release_trigger"
           /\ last_op'.who = k
           /\ tracks[k].envelope_state \in {"ATTACK", "SUSTAIN"})
          => tracks'[k].envelope_state = "RELEASE"]_vars

\* C14 (as stated): a trigger on a track with no clip loaded is a no-op: no
\* seek, no play, envelope state and level unchanged.
C14_TriggerOnUnloadedIsNoOp ==
    [][\A k \in PadKeys :
          (/\ last_op'.op = "midi_trigger"
           /\ last_op'.who = k
           /\ tracks[k].current_filepath = None)
          => /\ tracks'[k].envelope_state = tracks[k].envelope_state
             /\ tracks'[k].fade_level = tracks[k].fade_level
             /\ tracks'[k].fade_timer = tracks[k].fade_timer
             /\ tracks'[k].video_pos = tracks[k].video_pos
             /\ tracks'[k].playing = tracks[k].playing]_vars

\* C15: when the analysis of a file fails, the result delivered to prep_done
\* carries 120 BPM and duration 0 (the pad shows them), the stored tempo of the
\* clip on the pad becomes 120, and the clip stays assigned to its pad and to
\* its track.
C15_FailedAnalysisFallsBack ==
    [][\A k \in PadKeys :
          (last_op'.op = "prep_done" /\ last_op'.who = k /\ last_op'.arg = 0)
          => /\ buttons'[k] = [bpm |-> 1200, track_duration |-> 0, loading |-> FALSE]
             /\ bank_data' = bank_data
             /\ tracks'[k].current_filepath = tracks[k].current_filepath
             /\ bank_data[k] # None => clip_meta'[bank_data[k]] = 1200]_vars

\* C15 witness: a failed analysis of the clip on pad a has been delivered; the
\* clip is still on the pad and on the track, with the fallback tempo.
C15_FailedClipStillLoaded ==
    /\ last_op = Op("prep_done", "a", 0)
    /\ bank_data["a"] = "p1"
    /\ tracks["a"].current_filepath = "p1"
    /\ clip_meta["p1"] = 1200
    /\ buttons["a"].track_duration = 0

\* C16 (as stated): every dispatched time-stretch request delivers a result to
\* the control thread: a worker only ends by having on_rubberband_done called.
C16_EveryWorkerDelivers ==
    [][\A w \in rb_workers :
          w \notin rb_workers'
          => last_op' = Op("on_rubberband_done", w.deck, w.gen)]_vars

C18_StaleResultNeverApplied ==
    [][\A w \in prep_workers :
          (/\ w \notin prep_workers'
           /\ last_op'.op = "prep_done"
           /\ w.gen_id < current_generation)
          => /\ clip_meta' = clip_meta
             /\ buttons' = buttons
             /\ tracks'[w.key].raw_samples = tracks[w.key].raw_samples
             /\ tracks'[w.key].sample_rate = tracks[w.key].sample_rate]_vars

\* C19 (as stated): loading a clip binds it, resets the position to 0, clears
\* the audio data of the previous clip and does not start playback.
C19_LoadDoesNotAutoPlay ==
    [][\A k \in PadKeys :
          last_op' = Op("load_track", k, 0)
          => /\ tracks'[k].current_filepath = bank_data'[k]
             /\ tracks'[k].video_pos = 0
             /\ tracks'[k].raw_samples = None
             /\ ~tracks[k].playing => ~tracks'[k].playing]_vars

\* C20 (as stated): each incoming MIDI event invokes at most one bound action,
\* the first matching binding, even when two actions share the binding.
C20_AtMostOneActionPerEvent == Len(invoked) <= 1

\* C21 (as stated): after a session is saved and loaded back, every bank,
\* step and hot-cue lookup by integer key that succeeded before the save
\* succeeds with the same value, and the load itself completes.
C21_IntegerKeysSurviveReload ==
    (last_op.op = "load_set" /\ last_op.arg = 0)
    => /\ session.error = ""
       /\ \A n \in SessionBanks \cup SessionSteps \cup CueNumbers :
             /\ IntKey(n) \in DOMAIN session.saved.bank_data
                => /\ IntKey(n) \in DOMAIN session.bank_data
                   /\ session.bank_data[IntKey(n)] = session.saved.bank_data[IntKey(n)]
             /\ IntKey(n) \in DOMAIN session.saved.points
                => /\ IntKey(n) \in DOMAIN session.points
                   /\ session.points[IntKey(n)] = session.saved.points[IntKey(n)]
             /\ IntKey(n) \in DOMAIN session.saved.hotcues
                => /\ IntKey(n) \in DOMAIN session.hotcues
                   /\ session.hotcues[IntKey(n)] = session.saved.hotcues[IntKey(n)]

\* C22 (as stated): loading a file with a missing field or a key of the wrong
\* type does not abort: the affected field takes its default and the fields
\* that are present and well-formed are loaded.
C22_MalformedFileLoadsPerField ==
    (last_op.op = "load_set" /\ last_op.arg \in {1, 2})
    => /\ session.error = ""
       /\ last_op.arg = 1 => session.points = IntCast(ForeignFile(1).points.val)
       /\ last_op.arg = 2 => /\ IntCast(session.bank_data) = IntCast(ForeignFile(2).banks.val)
                             /\ session.points = EmptyDict

\* C23: within one tick the triggers come in increasing step order and, within
\* a step, in the fixed track order a, s, d, f: every track is handled for
\* step n before any track is handled for step n + 1.
C23_TickOrderIsStepThenTrack ==
    LET rank == [k \in PadKeys |-> CASE k = "a" -> 1 [] k = "s" -> 2
                                     [] k = "d" -> 3 [] OTHER -> 4]
    IN  \A i, j \in 1..Len(fired) :
            i < j => \/ fired[i].g < fired[j].g
                     \/ /\ fired[i].g = fired[j].g
                        /\ rank[fired[i].key] < rank[fired[j].key]

\* C23 witness: a tick that processed two steps and triggered tracks a and s
\* at both.
C23_TwoStepsTwoTracks ==
    /\ last_op.op = "run_sequencer_step"
    /\ Len(fired) >= 4
    /\ fired[1].key = "a" /\ fired[2].key = "s" /\ fired[2].g = fired[1].g
    /\ fired[3].key = "a" /\ fired[3].g = fired[1].g + 1

\* C24: at a tick whose gap total_steps - last_processed_step_global exceeds
\* 16 exactly one step, global step total_steps, is processed; with a gap of 1
\* to 16 every missed step is processed once, in order; in both cases
\* last_processed_step_global equals total_steps when the tick ends.
C24_ClampOrCatchUp ==
    [][(last_op'.op = "run_sequencer_step" /\ master_bpm > 0)
       => LET total == TotalSteps(now, transport_start_time, master_bpm, seq_multiplier)
              gap == total - last_processed_step_global
          IN  /\ gap > 16
                 => /\ last_op'.arg = 1
                    /\ \A i \in 1..Len(fired') : fired'[i].g = total
                    /\ last_processed_step_global' = total
              /\ (1 <= gap /\ gap <= 16)
                 => /\ last_op'.arg = gap
                    /\ \A i \in 1..Len(fired') :
                          /\ fired'[i].g > last_processed_step_global
                          /\ fired'[i].g <= total
                    /\ \A i, j \in 1..Len(fired') :
                          (i # j /\ fired'[i].key = fired'[j].key)
                          => fired'[i].g # fired'[j].g
                    /\ last_processed_step_global' = total]_vars

\* C24 witness: a tick that met a gap above the clamp processed one step and
\* triggered a track at it.
C24_LongStallOneStep ==
    /\ last_op = Op("run_sequencer_step", None, 1)
    /\ last_processed_step_global >= 16
    /\ Len(fired) >= 1
    /\ fired[1].g = last_processed_step_global

\* C25 (as stated): after every tick while the sequencer runs with a positive
\* tempo, last_processed_step_global equals the total_steps computed from the
\* current wall clock, tempo and multiplier, whatever changed during the run.
C25_LastEqualsTotalSteps ==
    [][(last_op'.op = "run_sequencer_step" /\ master_bpm > 0)
       => last_processed_step_global' =
             TotalSteps(now, transport_start_time, master_bpm, seq_multiplier)]_vars

\* C25 (amended): after such a tick last_processed_step_global is the larger of
\* its previous value and total_steps: it equals total_steps unless a lowered
\* tempo or multiplier has put total_steps behind it, and then it is kept.
C25_LastIsMaxOfLastAndTotal ==
    [][(last_op'.op = "run_sequencer_step" /\ master_bpm > 0)
       => LET total == TotalSteps(now, transport_start_time, master_bpm, seq_multiplier)
          IN  last_processed_step_global' =
                 IF total > last_processed_step_global THEN total
                 ELSE last_processed_step_global]_vars

\* C25 witness: a tick has run at a positive tempo while total_steps is behind
\* last_processed_step_global.
C25_TickBehindLast ==
    /\ last_op.op = "run_sequencer_step"
    /\ seq_running
    /\ master_bpm > 0
    /\ TotalSteps(now, transport_start_time, master_bpm, seq_multiplier)
          < last_processed_step_global

C27_UnmutedInAttackAtZeroGain ==
    [][(last_op'.op = "run_sequencer_step" /\ last_op'.arg = 1)
       => \A i \in 1..Len(fired') :
             LET u == TrackAtUnmute(tracks[fired'[i].key], fired'[i].pos)
             IN  /\ ~u.muted
                 /\ u.playing
                 /\ u.fade_level = Zero
                 /\ u.envelope_state = "ATTACK"
                 /\ u.gain_bass = Zero
                 /\ u.gain_treble = Zero]_vars

\* C28 (as stated): between two consecutive observations of a track's
\* envelope the level does not decrease while the state is ATTACK, does not
\* change while it is SUSTAIN and does not increase while it is RELEASE, also
\* when a trigger arrives in the middle of an attack.
C28_LevelMonotonePerState ==
    [][\A k \in PadKeys :
          LET t == tracks[k]
              u == tracks'[k]
          IN  /\ (t.envelope_state = "ATTACK" /\ u.envelope_state \in {"ATTACK", "SUSTAIN"})
                 => RatLeq(t.fade_level, u.fade_level)
              /\ (t.envelope_state = "SUSTAIN" /\ u.envelope_state = "SUSTAIN")
                 => u.fade_level = t.fade_level
              /\ (t.envelope_state = "RELEASE" /\ u.envelope_state \in {"RELEASE", "IDLE"})
                 => RatLeq(u.fade_level, t.fade_level)]_vars

\* C28 (amended): the level does not decrease in ATTACK, does not change in
\* SUSTAIN and does not increase in RELEASE between two consecutive
\* observations with no trigger of the track between them; a trigger puts
\* the track in ATTACK at level 0 whatever the level was.
C28_LevelMonotoneBetweenTriggers ==
    [][\A k \in PadKeys :
          LET t == tracks[k]
              u == tracks'[k]
              triggered == /\ last_op'.op = "run_sequencer_step"
                           /\ \E i \in 1..Len(fired') : fired'[i].key = k
          IN  IF triggered
              THEN u.envelope_state = "ATTACK" /\ u.fade_level = Zero
              ELSE /\ (t.envelope_state = "ATTACK"
                       /\ u.envelope_state \in {"ATTACK", "SUSTAIN"})
                      => RatLeq(t.fade_level, u.fade_level)
                   /\ (t.envelope_state = "SUSTAIN" /\ u.envelope_state = "SUSTAIN")
                      => u.fade_level = t.fade_level
                   /\ (t.envelope_state = "RELEASE"
                       /\ u.envelope_state \in {"RELEASE", "IDLE"})
                      => RatLeq(u.fade_level, t.fade_level)]_vars

\* C28 witness: a trigger arrived in the middle of an attack: the outputs
\* still carry the gain of level 1/2 the last envelope tick applied, and the
\* level is back at 0 in ATTACK.
C28_RetriggeredMidAttack ==
    /\ last_op.op = "run_sequencer_step"
    /\ \E i \in 1..Len(fired) : fired[i].key = "a"
    /\ tracks["a"].envelope_state = "ATTACK"
    /\ tracks["a"].fade_level = Zero
    /\ tracks["a"].gain_bass = Half

\* C29: an envelope tick in ATTACK moves the track to SUSTAIN exactly when
\* the level reaches 1 and leaves it in ATTACK below 1; an envelope tick in
\* RELEASE (applied to every reachable track put in RELEASE at levels 0, 1/2
\* and 1) moves it to IDLE exactly when the level reaches 0, and then the
\* deck is paused and the envelope timer stopped; in every state SUSTAIN
\* implies level = 1 and IDLE implies level = 0.
C29_EnvelopeTransitionsAtTheEnds ==
    [][\A k \in PadKeys :
          LET t == tracks[k]
              u == tracks'[k]
          IN  /\ \A x \in {t, u} :
                    /\ x.envelope_state = "SUSTAIN" => x.fade_level = One
                    /\ x.envelope_state = "IDLE" => x.fade_level = Zero
              /\ (last_op' = Op("process_envelope", k, 0) /\ t.envelope_state = "ATTACK")
                 => /\ u.envelope_state \in {"ATTACK", "SUSTAIN"}
                    /\ u.envelope_state = "SUSTAIN"
                          <=> RatLeq(One, RatAdd(t.fade_level, Rat(5, t.attack_ms)))
                    /\ u.envelope_state = "SUSTAIN" <=> u.fade_level = One
              /\ \A l \in {Zero, Half, One} :
                    LET r == [u EXCEPT !.envelope_state = "RELEASE", !.fade_level = l,
                                       !.playing = TRUE, !.fade_timer = TRUE]
                        v == TrackProcessEnvelope(r)
                    IN  /\ v.envelope_state \in {"RELEASE", "IDLE"}
                        /\ v.envelope_state = "IDLE"
                              <=> RatLeq(RatSub(l, Rat(5, r.release_ms)), Zero)
                        /\ v.envelope_state = "IDLE" <=> v.fade_level = Zero
                        /\ v.envelope_state = "IDLE" => (~v.playing /\ ~v.fade_timer)
                        /\ v.envelope_state = "RELEASE" => (v.playing /\ v.fade_timer)]_vars

\* C29 witness: the envelope tick that took track a from level 1/2 to 1
\* moved it to SUSTAIN, the deck playing at full gain
C29_SustainReachedAtOne ==
    /\ last_op = Op("process_envelope", "a", 0)
    /\ tracks["a"].envelope_state = "SUSTAIN"
    /\ tracks["a"].fade_level = One
    /\ tracks["a"].gain_bass = One
    /\ tracks["a"].playing
    /\ tracks["d"].envelope_state = "IDLE"

\* C30 (as stated): when a rendition is swapped in, the audio players play it
\* at rate 1.0 from the position floor(video position / the ratio the
\* rendition was rendered at), and the swap changes neither the video
\* position nor the video rate.
C30_SwapMapsByRenditionRatio ==
    [][\A d \in Decks :
          (last_op'.op = "on_rubberband_done" /\ last_op'.who = d)
          => /\ deck'[d].audio_source = "stretch"
             /\ deck'[d].audio_rate = One
             /\ deck'[d].audio_pos = MapToAudio(deck[d].video_pos, deck'[d].source_ratio)
             /\ deck'[d].video_pos = deck[d].video_pos
             /\ deck'[d].playback_rate = deck[d].playback_rate]_vars

\* C31 (as stated): after setPlaybackRate(r) on a deck with audio loaded, from
\* any reachable state of the deck (pitch-shifted base audio or a rendition
\* active) and for every rate r the sync can request, the video rate and the
\* audio rate equal r, the sounding audio is the base audio and the audio
\* position equals the video position.
C31_RateSetOnVideoAndBaseAudio ==
    \A d \in Decks : \A r \in RoundTripRates \cup {One} :
        deck[d].audio_source # None
        => LET u == SetPlaybackRate(deck[d], r)
           IN  /\ u.playback_rate = r
               /\ u.audio_rate = r
               /\ u.audio_source = "base"
               /\ u.audio_pos = u.video_pos

\* C32 (as stated): the search returns the time of a sample whose absolute
\* amplitude is least among the decoded samples within 20 ms either side of
\* the requested sample index, so that the result differs from the request
\* by at most 20 ms plus the truncation of one sample period; it returns the
\* request unchanged when no samples are loaded or no sample lies in that
\* window.
C32_NearestQuietSampleWithin20ms ==
    crossing.rev \in {"o", "j"}
    => LET sr == IF crossing.rev = "o" THEN SampleRateOf["p1"] ELSE VisSampleRate
           n == IF crossing.rev = "o" THEN (crossing.dur * sr) \div 1000
                ELSE (Min(crossing.dur, VisCapMs) * sr) \div 1000
           idx == (crossing.target_ms * sr) \div 1000
           w == (20 * sr) \div 1000
           near == {i \in (idx - w)..(idx + w - 1) : 0 <= i /\ i < n}
       IN  IF ~crossing.loaded \/ near = {}
           THEN crossing.result = crossing.target_ms
           ELSE /\ \E i \in near :
                      /\ crossing.result = (i * 1000) \div sr
                      /\ \A j \in near : Abs(SampleAt("p1", i)) <= Abs(SampleAt("p1", j))
                /\ Abs(crossing.result - crossing.target_ms) <= 20 + 1000 \div sr

C34_SustainWithinCeilTicks ==
    (ramp.envelope_state = "ATTACK")
        ~> (/\ ramp.envelope_state = "SUSTAIN"
            /\ ramp.fade_level = FOne
            /\ ramp.ticks <= AttackTicks(ramp.attack_ms))

\* C34 (amended): after a trigger, with no further trigger and the envelope
\* timer firing, the envelope reaches SUSTAIN at level 1.0 after at most
\* ceil(attack_ms / 5) + 1 ticks: the added steps are rounded doubles
C34_SustainWithinCeilPlusOne ==
    (ramp.envelope_state = "ATTACK")
        ~> (/\ ramp.envelope_state = "SUSTAIN"
            /\ ramp.fade_level = FOne
            /\ ramp.ticks <= AttackTicks(ramp.attack_ms) + 1)

\* an attack of 30 ms is in SUSTAIN at level 1.0 after its seventh tick
C34_ThirtyMsTakesSevenTicks ==
    /\ ramp.envelope_state = "SUSTAIN"
    /\ ramp.fade_level = FOne
    /\ ramp.attack_ms = 30
    /\ ramp.ticks = 7

\* C35 (as stated): once every in-flight analysis result has been delivered,
\* in any order, the base audio of each deck and the tempo stored for its
\* clip path are those the analysis computes from the file loaded on the deck
\* (or its fallback when the file cannot be decoded), also after a pad was
\* re-assigned while an analysis was running.
C35_SettledDataIsOfTheLoadedFile ==
    prep_workers = {}
    => \A d \in Decks :
          LET path == deck[d].current_filepath
          IN  path # None
              => /\ deck[d].base_wav_path \in {path, "", None}
                 /\ clip_meta[path] \in {TempoOf[path], 1200, NoTempo}

\* C36: while a track's mute state is on its target volume is 0, whatever
\* fader moves (UI or MIDI) occur; while it is off the target volume is the
\* fader's value / 100.
C36_MutedIsSilentElseFader ==
    \A k \in PadKeys :
        tracks[k].target_volume = IF mute_states[k] THEN Zero
                                  ELSE Rat(faders[k], 100)

\* C36 witness: the fader of muted track a was moved by MIDI to 25 and the
\* target volume is still 0
C36_FaderMovedWhileMuted ==
    /\ mute_states["a"]
    /\ last_op = Op("set_track_volume", "a", 25)
    /\ faders["a"] = 25
    /\ tracks["a"].target_volume = Zero

\* C37 (as stated): the main audio output of the RAM-loop deck is muted only
\* while a RAM loop is playing; a start_ram_loop that the loop player rejects
\* does not leave the deck muted, and stop_ram_loop unmutes it.
C37_MutedOnlyWhileLoopPlays ==
    /\ jdeck.muted => jdeck.is_playing
    /\ last_op.op = "stop_ram_loop" => ~jdeck.muted

====
